---- MODULE Spec2Model ----
(***************************************************************************)
(* Model of the ironic-python-agent core: the decommission engine of      *)
(* HardwareManager (hardware.py), the image fetcher, download scope and   *)
(* config-drive unpacking of BaseImageManager (imaging/base.py), and the  *)
(* cache_image and prepare_image commands of the standby extension        *)
(* (extensions/standby.py).                                               *)
(*                                                                         *)
(* The package is Python 2 code (imaging/base.py imports md5 and          *)
(* StringIO), so sorted() orders None before every integer.               *)
(***************************************************************************)
EXTENDS Integers, Sequences, FiniteSets, TLC

VARIABLES
    steps,      \* what get_decommission_steps() of the elected manager returns
    node,       \* the node the controller sends: its driver_info
    kwargs,     \* kwargs of the last decommission call
    oracle,     \* what the step function of the last call did
    result,     \* outcome of the last decommission call
    ctl,        \* controller position in a decommission walk
    ran,        \* states whose step function was invoked, over all calls
    calls,      \* number of decommission calls made
    image_info, \* the image_info handed to _fetch_image: urls and checksum
    net,        \* what the network does for each URL of image_info
    fpc,        \* position of _fetch_image
    url_i,      \* index of the URL the for loop is at
    requested,  \* URLs a GET was issued for, in order
    last_error, \* reason of the last ImageDownloadError caught by the loop
    resp,       \* index of the URL whose response was selected, 0 if none
    chunk_i,    \* chunks of the response body read so far
    checksum,   \* the running md5 object
    read_cb,    \* chunks the read_cb callback was called with, in order
    cb_fail,    \* number of chunks after which read_cb raises, -1 if never
    fetched,    \* how _fetch_image ended
    hw_mgr,          \* the elected hardware manager
    cached_image_id, \* StandbyExtension.cached_image_id
    cached0,         \* cached_image_id when the running command was called
    cmd,             \* the standby command being served, with its parameters
    web,             \* what the network does for each URL of the command's image
    spc,             \* position of the standby command
    events,          \* calls the command has made, in order
    command_status,  \* command_status of the command's result
    command_error,   \* kind of the exception that ended the command
    device,          \* what get_os_install_device returned
    img_mgr,         \* what get_image_manager returned
    tmp,             \* the temp directory: whether it exists, its regular files
    cd_size,         \* size of the unpacked configdrive, -1 before unpacking
    last_write,      \* the last image write started on the install device
    epc,             \* position of _ata_erase
    security_lines,  \* the security lines _ata_erase read first
    verify_lines,    \* the security lines read again after the erase
    hdparm,          \* hdparm invocations on the device, with their exit codes
    ata_result,      \* how _ata_erase ended
    erase_entry,     \* the call that led to erase_devices
    erase_i,         \* index of the block device being erased, 0 when none
    n_block_devices, \* how many block devices list_block_devices returns
    dev_password,    \* who set the security password of each device
    erase_log,       \* the devices erase_devices has dealt with, in order
    erase_result,    \* how erase_devices ended
    erase_calls,     \* erase_devices calls so far
    _global_manager, \* hardware._global_manager
    ranks,           \* what evaluate_hardware_support of each entry point returns now
    loads,           \* how many times the entry points were loaded
    wpc,             \* position of each worker in get_manager
    got,             \* how the last get_manager of each worker ended
    late,            \* the worker's call began after a get_manager had returned
    first,           \* what the first get_manager that returned gave
    mgr_calls,       \* get_manager calls so far
    hardware,        \* what list_hardware_info returns
    properties,      \* node['properties']
    vpc,             \* position of the verification
    install_device,  \* what get_os_install_device returned
    verify_result,   \* how verify_properties ended
    serve_api,       \* agent.serve_api
    rpc,             \* position of finalize_rescue
    rescue_args,     \* rescue_password and configdrive of the call
    etc,             \* contents of the two rescue files
    written,         \* the files the call has written, in order
    rescue_result,   \* how finalize_rescue ended
    rescue_calls,    \* finalize_rescue calls so far
    emitted,         \* the metrics handed to the backend, in order
    mpc,             \* position of the metrics caller
    m_call,          \* the metrics operation in progress or last made
    m_result,        \* how the last metrics operation ended
    m_calls,         \* metrics operations so far
    start_time,      \* InstrumentContext.start_time
    now,             \* time.time()
    body_outcome,    \* how the body of the with statement ended
    jobs,            \* the command each worker runs in _write_image
    vhd_pc,          \* where VHDUtilImageManager.write_os_image stands
    vhd_fs,          \* the temp file, the tar directory and the working directory
    package,         \* the VHD files the downloaded tar file holds
    vhds,            \* the list _get_vhds returned
    parent_path,     \* parent_path of _link_vhds
    link_k,          \* how many entries of reversed(vhds) _link_vhds has taken
    vhd_cmds,        \* the vhd-util and vhd2raw commands executed so far
    vhd_result,      \* how write_os_image ended
    released,        \* the releases on the way out, in their order
    sockets,         \* every socket _open_socket has created
    senders          \* the _send call of each worker

decomVars == <<steps, node, kwargs, oracle, result, ctl, ran, calls>>

fetchVars == <<image_info, net, fpc, url_i, requested, last_error, resp,
               chunk_i, checksum, read_cb, cb_fail, fetched>>

standbyVars == <<hw_mgr, cached_image_id, cached0, cmd, web, spc, events,
                 command_status, command_error, device, img_mgr, tmp, cd_size,
                 last_write>>

\* the state of an erase_devices call outside the device at hand
eraseOpVars ==
    <<erase_entry, erase_i, n_block_devices, erase_log, erase_result,
      erase_calls>>

eraseVars ==
    <<epc, security_lines, verify_lines, hdparm, ata_result, eraseOpVars,
      dev_password>>

mgrVars == <<_global_manager, ranks, loads, wpc, got, late, first, mgr_calls>>

verifyVars == <<hardware, properties, vpc, install_device, verify_result>>

rescueVars ==
    <<serve_api, rpc, rescue_args, etc, written, rescue_result, rescue_calls>>

metricsVars ==
    <<emitted, mpc, m_call, m_result, m_calls, start_time, now, body_outcome>>

\* the subsystems that work on the host: erase, manager election,
\* verification, rescue, metrics
hostVars == <<eraseVars, mgrVars, verifyVars, rescueVars, metricsVars>>

raceVars == <<jobs>>

vhdVars ==
    <<vhd_pc, vhd_fs, package, vhds, parent_path, link_k, vhd_cmds, vhd_result,
      released>>

statsdVars == <<sockets, senders>>

\* concurrent image writes, the VHD writer, the statsd sockets
auxVars == <<raceVars, vhdVars, statsdVars>>

vars == <<decomVars, fetchVars, standbyVars, hostVars, auxVars>>

\* what the decommission engine leaves alone
notDecom == <<fetchVars, standbyVars, hostVars, auxVars>>

\* what the image fetcher leaves alone
notFetch == <<decomVars, standbyVars, hostVars, auxVars>>

\* what the standby commands leave alone
notStandby == <<decomVars, hostVars, auxVars>>

\* what the secure erase leaves alone
notErase ==
    <<decomVars, fetchVars, standbyVars, mgrVars, verifyVars, rescueVars,
      metricsVars, auxVars>>

\* what get_manager leaves alone
notMgr ==
    <<decomVars, fetchVars, standbyVars, eraseVars, verifyVars, rescueVars,
      metricsVars, auxVars>>

\* what the verification leaves alone
notVerify ==
    <<decomVars, fetchVars, standbyVars, eraseVars, mgrVars, rescueVars,
      metricsVars, auxVars>>

\* what the metrics leave alone
notMetrics ==
    <<decomVars, fetchVars, standbyVars, eraseVars, mgrVars, verifyVars,
      rescueVars, auxVars>>

\* what the rescue leaves alone
notRescue ==
    <<decomVars, fetchVars, standbyVars, eraseVars, mgrVars, verifyVars,
      metricsVars, auxVars>>

\* what concurrent image writes leave alone
notRace == <<decomVars, fetchVars, hostVars, vhdVars, statsdVars>>

\* what the VHD writer leaves alone
notVhd == <<decomVars, fetchVars, standbyVars, hostVars, raceVars, statsdVars>>

\* what the statsd sockets leave alone
notStatsd == <<decomVars, fetchVars, standbyVars, hostVars, raceVars, vhdVars>>

(***************************************************************************)
(* Bounds of the model.                                                    *)
(***************************************************************************)
MaxSteps == 3
MaxPriority == 3
MaxUrls == 3

(***************************************************************************)
(* Python values.                                                          *)
(***************************************************************************)
None == "None"

\* Python truth value of a string-or-None
Truthy(v) == v \notin {None, ""}

NoPriority == [none |-> TRUE, val |-> 0]

Prio(p) == [none |-> FALSE, val |-> p]

Priorities == {NoPriority} \cup {Prio(p) : p \in 1..MaxPriority}

\* HARDWARE_MANAGER_VERSION of the manager
HARDWARE_MANAGER_VERSION == "1"

StateName(i) == CASE i = 1 -> "update_bios"
                  [] i = 2 -> "update_firmware"
                  [] i = 3 -> "erase_devices"
                  [] i = 4 -> "verify_properties"
                  [] OTHER -> "state_" \o ToString(i)

UnknownState == "no_such_state"

\* A decommission step as get_decommission_steps lists it
Step(i, p, r) == [state |-> StateName(i), function |-> StateName(i),
                  priority |-> p, reboot_requested |-> r]

\* Step lists of a manager: states unique (data model), any priorities in any
\* order, at most one step asking for a reboot.
StepLists ==
    UNION { { [i \in 1..n |-> Step(i, ps[i], i = rb)] :
                ps \in [1..n -> Priorities], rb \in 0..n } : n \in 0..MaxSteps }

(***************************************************************************)
(* _get_sorted_steps: sorted(steps, key=priority), stable, None first,    *)
(* then the steps without a priority dropped.                              *)
(***************************************************************************)
\* Python 2 ordering of priorities: None < every integer
PriorityLess(a, b) == IF a.none THEN ~b.none
                      ELSE ~b.none /\ a.val < b.val

RECURSIVE Insert(_, _)
\* insert x after every element not greater than x (stable)
Insert(x, s) == IF s = <<>> THEN <<x>>
                ELSE IF PriorityLess(x.priority, Head(s).priority)
                     THEN <<x>> \o s
                     ELSE <<Head(s)>> \o Insert(x, Tail(s))

RECURSIVE sorted_by_priority(_)
sorted_by_priority(s) ==
    IF s = <<>> THEN <<>>
    ELSE Insert(s[Len(s)], sorted_by_priority(SubSeq(s, 1, Len(s) - 1)))

HasPriority(x) == ~x.priority.none

\* the steps filtered, the sort forgotten
_get_sorted_steps_unsorted(s) == SelectSeq(s, HasPriority)

_get_sorted_steps(s) == SelectSeq(sorted_by_priority(s), HasPriority)

(***************************************************************************)
(* Results of a decommission call.                                         *)
(***************************************************************************)
ResultKeys == {"decommission_next_state", "reboot_requested",
               "step_return_value", "hardware_manager_version"}

NoResult == [kind |-> "none", reason |-> "", keys |-> {},
             decommission_next_state |-> None, reboot_requested |-> FALSE,
             step_return_value |-> None, hardware_manager_version |-> None,
             selected |-> None, invoked |-> <<>>]

Raise(kind, reason, selected, invoked) ==
    [NoResult EXCEPT !.kind = kind, !.reason = reason,
                     !.selected = selected, !.invoked = invoked]

\* index of the first step of s whose state is st, 0 when there is none
FirstIndex(s, st) ==
    IF \E i \in 1..Len(s) : s[i].state = st
    THEN CHOOSE i \in 1..Len(s) :
            s[i].state = st /\ \A j \in 1..(i - 1) : s[j].state # st
    ELSE 0

\* DONE reported one step early
_get_next_target_state_early(decommission_steps, step, return_value) ==
    LET next_steps == _get_sorted_steps(decommission_steps)
        index == FirstIndex(next_steps, step.state)
    IN  [kind |-> "return", reason |-> "", keys |-> ResultKeys,
         decommission_next_state |->
             IF index >= Len(next_steps) - 1 THEN "DONE"
             ELSE next_steps[index + 1].state,
         reboot_requested |-> step.reboot_requested,
         step_return_value |-> return_value,
         hardware_manager_version |-> HARDWARE_MANAGER_VERSION,
         selected |-> step.state, invoked |-> <<step.state>>]

\* _get_next_target_state(decommission_steps, step, return_value)
_get_next_target_state(decommission_steps, step, return_value) ==
    LET next_steps == _get_sorted_steps(decommission_steps)
        index == FirstIndex(next_steps, step.state)
    IN  IF index = 0
        THEN \* the loop ends without a return: the call returns None
             [NoResult EXCEPT !.kind = "return", !.selected = step.state,
                              !.invoked = <<step.state>>]
        ELSE [kind |-> "return", reason |-> "", keys |-> ResultKeys,
              decommission_next_state |->
                  IF index = Len(next_steps) THEN "DONE"
                  ELSE next_steps[index + 1].state,
              reboot_requested |-> step.reboot_requested,
              step_return_value |-> return_value,
              hardware_manager_version |-> HARDWARE_MANAGER_VERSION,
              selected |-> step.state, invoked |-> <<step.state>>]

\* a dispatch that calls the function before looking it up
run_step_unchecked(decommission_steps, step, orc) ==
    IF orc.outcome = "absent"
    THEN Raise("DecommissionError", "unknown_function", step.state,
               <<step.state>>)
    ELSE IF orc.outcome = "raise"
    THEN Raise("DecommissionError", "step_failed", step.state, <<step.state>>)
    ELSE _get_next_target_state(decommission_steps, step, orc.return_value)

\* getattr(self, step['function']) and func(node, ports), lines 265-283
run_step(decommission_steps, step, orc) ==
    IF orc.outcome = "absent"
    THEN Raise("DecommissionError", "unknown_function", step.state, <<>>)
    ELSE IF orc.outcome = "raise"
    THEN Raise("DecommissionError", "step_failed", step.state, <<step.state>>)
    ELSE _get_next_target_state(decommission_steps, step, orc.return_value)

\* a guard that takes an unset node version for a mismatch
version_mismatch_unset(driver_info) ==
    driver_info.hardware_manager_version # HARDWARE_MANAGER_VERSION

\* the version guard, lines 242-248
version_mismatch(driver_info) ==
    /\ Truthy(driver_info.hardware_manager_version)
    /\ driver_info.hardware_manager_version # HARDWARE_MANAGER_VERSION

\* an initial call that takes the first step of the unsorted list
dispatch_first_listed(decommission_steps, stepsUsed, driver_info, target_state, orc) ==
    IF version_mismatch(driver_info)
    THEN Raise("WrongDecommissionVersion", "", None, <<>>)
    ELSE IF ~Truthy(target_state)
    THEN IF decommission_steps = <<>>
         THEN Raise("IndexError", "", None, <<>>)
         ELSE run_step(decommission_steps, decommission_steps[1], orc)
    ELSE LET i == FirstIndex(stepsUsed, target_state)
         IN  IF i = 0
             THEN Raise("DecommissionError", "unknown_state", None, <<>>)
             ELSE run_step(decommission_steps, stepsUsed[i], orc)

\* lines 242-283: version guard, step lookup, dispatch
dispatch(decommission_steps, stepsUsed, driver_info, target_state, orc) ==
    IF version_mismatch(driver_info)
    THEN Raise("WrongDecommissionVersion", "", None, <<>>)
    ELSE IF ~Truthy(target_state)
    THEN IF stepsUsed = <<>>
         THEN Raise("IndexError", "", None, <<>>)      \* steps[0] of an empty list
         ELSE run_step(decommission_steps, stepsUsed[1], orc)
    ELSE LET i == FirstIndex(stepsUsed, target_state)
         IN  IF i = 0
             THEN Raise("DecommissionError", "unknown_state", None, <<>>)
             ELSE run_step(decommission_steps, stepsUsed[i], orc)

\* explicit targets looked up in the sorted and filtered list too
decommission_always_sorted(decommission_steps, nd, kw, orc) ==
    LET driver_info == nd.driver_info
        target_state == kw.decommission_target_state
    IN  IF ~Truthy(target_state) /\ ~driver_info.has_target
        THEN Raise("DecommissionError", "missing_target", None, <<>>)
        ELSE dispatch(decommission_steps, _get_sorted_steps(decommission_steps),
                      driver_info,
                      IF Truthy(target_state) THEN target_state
                      ELSE driver_info.decommission_target_state, orc)

\* HardwareManager.decommission(node, ports, **kwargs)
decommission(decommission_steps, nd, kw, orc) ==
    LET driver_info == nd.driver_info
        target_state == kw.decommission_target_state
    IN  IF ~Truthy(target_state)
        THEN IF ~driver_info.has_target
             THEN Raise("DecommissionError", "missing_target", None, <<>>)
             ELSE dispatch(decommission_steps,
                           _get_sorted_steps(decommission_steps), driver_info,
                           driver_info.decommission_target_state, orc)
        ELSE dispatch(decommission_steps, decommission_steps, driver_info,
                      target_state, orc)

(***************************************************************************)
(* Inputs of a decommission call.                                          *)
(***************************************************************************)
KnownStates == {steps[i].state : i \in 1..Len(steps)}

\* target states a caller may name
TargetNames == KnownStates \cup {UnknownState}

NodeVersions == {None, "0", HARDWARE_MANAGER_VERSION}

\* driver_info of a node: the decommission_target_state key may be absent
DriverInfos ==
    { [has_target |-> h, decommission_target_state |-> t,
       hardware_manager_version |-> v] :
        h \in BOOLEAN, t \in {None, ""} \cup TargetNames, v \in NodeVersions }

Nodes == { [driver_info |-> d] :
             d \in { x \in DriverInfos :
                       ~x.has_target => x.decommission_target_state = None } }

\* a call either names its target explicitly or leaves it to driver_info
Requests ==
    { r \in [node : Nodes, kwargs : [decommission_target_state : {None} \cup TargetNames]] :
        Truthy(r.kwargs.decommission_target_state)
            => r.node.driver_info.decommission_target_state = None }

Oracles == { [outcome |-> "ok", return_value |-> None],
             [outcome |-> "ok", return_value |-> "output"],
             [outcome |-> "raise", return_value |-> None],
             [outcome |-> "absent", return_value |-> None] }

IdleNode == [driver_info |-> [has_target |-> FALSE,
                              decommission_target_state |-> None,
                              hardware_manager_version |-> None]]

IdleKwargs == [decommission_target_state |-> None]

IdleOracle == [outcome |-> "ok", return_value |-> None]

(***************************************************************************)
(* The subsystems that work on the host, at rest.                          *)
(***************************************************************************)
NoAtaResult == [kind |-> "none", reason |-> ""]

EraseIdle ==
    /\ epc = "idle"
    /\ security_lines = {}
    /\ verify_lines = {}
    /\ hdparm = <<>>
    /\ ata_result = NoAtaResult
    /\ erase_entry = "none"
    /\ erase_i = 0
    /\ n_block_devices = 0
    /\ dev_password = <<>>
    /\ erase_log = <<>>
    /\ erase_result = NoAtaResult
    /\ erase_calls = 0

\* the workers that run commands
Workers == {"w1", "w2"}

\* a manager instance: the idx-th entry point, made by the load-th loading
Manager(load, idx) == [load |-> load, idx |-> idx]

NoManager == Manager(0, 0)

Got(kind, mgr) == [kind |-> kind, mgr |-> mgr]

NotCalled == Got("none", NoManager)

MgrIdle ==
    /\ _global_manager = NoManager
    /\ ranks = <<>>
    /\ loads = 0
    /\ wpc = [w \in Workers |-> "idle"]
    /\ got = [w \in Workers |-> NotCalled]
    /\ late = [w \in Workers |-> FALSE]
    /\ first = NoManager
    /\ mgr_calls = 0

\* an inventory entry: present is FALSE for a missing key or a None value
Entry(present, value) == [present |-> present, value |-> value]

NoHardware ==
    [cpu |-> Entry(FALSE, 0), memory |-> Entry(FALSE, 0),
     disks |-> Entry(FALSE, <<>>)]

NoVerifyResult == [kind |-> "none", field |-> ""]

VerifyIdle ==
    /\ hardware = NoHardware
    /\ properties = <<>>
    /\ vpc = "idle"
    /\ install_device = None
    /\ verify_result = NoVerifyResult

pass_file == "/etc/ipa_rescue_password"

configdrive_file == "/etc/ipa_rescue_configdrive"

RescueArgs(rescue_password, configdrive) ==
    [rescue_password |-> rescue_password, configdrive |-> configdrive]

NoRescueArgs == RescueArgs("", "")

\* neither rescue file exists
EmptyEtc == [f \in {pass_file, configdrive_file} |-> None]

RescueIdle ==
    /\ serve_api = TRUE
    /\ rpc = "idle"
    /\ rescue_args = NoRescueArgs
    /\ etc = EmptyEtc
    /\ written = <<>>
    /\ rescue_result = "none"
    /\ rescue_calls = 0

\* a metrics operation: sample_rate is an Entry, not present for None
MetricCall(op, parts, value, sample_rate) ==
    [op |-> op, parts |-> parts, value |-> value, sample_rate |-> sample_rate]

NoMetricCall == MetricCall("none", <<>>, 0, Entry(FALSE, 0))

MetricsIdle ==
    /\ emitted = <<>>
    /\ mpc = "idle"
    /\ m_call = NoMetricCall
    /\ m_result = "none"
    /\ m_calls = 0
    /\ start_time = 0
    /\ now = 0
    /\ body_outcome = "none"

\* a worker that runs no command
NoJob == [pc |-> "idle", name |-> "none", id |-> None, force |-> FALSE, n |-> 0]

RaceIdle == jobs = [w \in Workers |-> NoJob]

\* nothing downloaded, no tar directory, the working directory of the agent
EmptyVhdFs == [file |-> FALSE, tardir |-> FALSE, cwd |-> "old_path"]

NoPackage == [image |-> FALSE, n |-> 0]

VhdIdle ==
    /\ vhd_pc = "idle"
    /\ vhd_fs = EmptyVhdFs
    /\ package = NoPackage
    /\ vhds = <<>>
    /\ parent_path = None
    /\ link_k = 0
    /\ vhd_cmds = <<>>
    /\ vhd_result = "none"
    /\ released = <<>>

\* a worker that is not in _send
NoSender == [pc |-> "idle", sock |-> 0, n |-> 0, result |-> "none"]

StatsdIdle ==
    /\ sockets = <<>>
    /\ senders = [w \in Workers |-> NoSender]

AuxIdle == RaceIdle /\ VhdIdle /\ StatsdIdle

HostIdle ==
    EraseIdle /\ MgrIdle /\ VerifyIdle /\ RescueIdle /\ MetricsIdle /\ AuxIdle

(***************************************************************************)
(* The standby extension (extensions/standby.py): commands and their       *)
(* parameters, the temp directory of the image managers.                   *)
(***************************************************************************)
\* a key the dict does not have
Absent == "absent"

\* disk_format and container_format of an image_info
Formats == {<<None, None>>, <<"qcow2", "bare">>, <<"vhd", "ova">>,
            <<"raw", "bare">>}

ImageInfo(id, urls, chk, f) ==
    [id |-> id, urls |-> urls, checksum |-> chk,
     disk_format |-> f[1], container_format |-> f[2]]

\* image_info dicts with a usable id, a list of URLs and a checksum string
ValidImageInfos ==
    {ImageInfo(i, "list", c, f) :
        i \in {"i1", "i2"}, c \in {"c", "0"}, f \in Formats}

\* image_info of None or {}, and dicts that have one field missing, empty or
\* of the wrong type
BrokenImageInfos ==
    {ImageInfo(Absent, Absent, Absent, <<None, None>>)}
        \cup {ImageInfo(i, "list", "c", <<None, None>>) : i \in {Absent, ""}}
        \cup {ImageInfo("i1", u, "c", <<None, None>>) :
                 u \in {Absent, "str", "empty_list"}}
        \cup {ImageInfo("i1", "list", c, <<None, None>>) :
                 c \in {Absent, "not_string", ""}}

Command(name, info, force, configdrive) ==
    [name |-> name, image_info |-> info, force |-> force,
     configdrive |-> configdrive]

\* cache_image(image_info, force) and prepare_image(image_info, configdrive)
Commands ==
    {Command("cache_image", i, f, None) :
        i \in ValidImageInfos \cup BrokenImageInfos, f \in BOOLEAN}
    \cup {Command("prepare_image", i, FALSE, c) :
        i \in ValidImageInfos \cup BrokenImageInfos,
        c \in {None, "configdrive_data"}}

NoCommand == Command("none", ImageInfo(Absent, Absent, Absent, <<None, None>>),
                     FALSE, None)

\* the elected manager: the generic one, or one plugged in through the
\* ironic_python_agent.hardware_managers namespace
HardwareManagers == {"GenericHardwareManager", "PluggedHardwareManager"}

\* BaseImageManager.tmpdir and the paths below it
TmpDir == "/tmp/"

_image_location(info) == TmpDir \o info.id

_configdrive_location == TmpDir \o "configdrive"

\* an image write on the install device: the id of the image the script was
\* started with and whether the script ran to its end
ImageWrite(id, complete) == [id |-> id, complete |-> complete]

\* no image write was started on the install device
NoWrite == ImageWrite(None, FALSE)

EmptyTmp == [dir |-> TRUE, files |-> {}]

StandbyIdle ==
    /\ hw_mgr = "GenericHardwareManager"
    /\ cached_image_id = None
    /\ cached0 = None
    /\ cmd = NoCommand
    /\ web = <<>>
    /\ spc = "idle"
    /\ events = <<>>
    /\ command_status = "none"
    /\ command_error = ""
    /\ device = None
    /\ img_mgr = None
    /\ tmp = EmptyTmp
    /\ cd_size = -1
    /\ last_write = NoWrite

(***************************************************************************)
(* The image fetcher: BaseImageManager._fetch_image.                       *)
(***************************************************************************)
\* Response bodies as iter_content yields them: chunks of bytes
Bodies == { <<<<1>>>>, <<<<1>>, <<2>>>>, <<<<2>>, <<1>>>> }

\* What the network does for a URL: a transport error (no HTTP response), or
\* an HTTP response with a status and a body; io_fail is the number of chunks
\* after which reading the body fails, -1 when it never does.
TransportError == [kind |-> "transport", status |-> 0, body |-> <<>>, io_fail |-> -1]

Http(status, body, io_fail) ==
    [kind |-> "http", status |-> status, body |-> body, io_fail |-> io_fail]

Responses ==
    {TransportError, Http(404, <<>>, -1), Http(500, <<>>, -1),
     Http(200, <<<<1>>, <<2>>>>, 1)}
        \cup {Http(200, b, -1) : b \in Bodies}

\* md5: new, update with a chunk, hexdigest (a 4-bit stand-in for the digest)
md5_new == 7

RECURSIVE md5_update(_, _)
md5_update(h, chunk) ==
    IF chunk = <<>> THEN h
    ELSE md5_update((h * 5 + Head(chunk) + 1) % 16, Tail(chunk))

HexDigits == <<"0", "1", "2", "3", "4", "5", "6", "7",
               "8", "9", "a", "b", "c", "d", "e", "f">>

hexdigest(h) == HexDigits[h + 1]

RECURSIVE md5_of(_, _)
\* the digest state after the chunks of a whole body
md5_of(h, body) == IF body = <<>> THEN h
                   ELSE md5_of(md5_update(h, Head(body)), Tail(body))

Checksums == {hexdigest(md5_of(md5_new, b)) : b \in Bodies} \cup {"C"}

UrlName(i) == "url" \o ToString(i)

ImageInfos ==
    { [id |-> "fake_id", urls |-> [i \in 1..n |-> UrlName(i)], checksum |-> c] :
        n \in 0..MaxUrls, c \in Checksums }

\* when the read_cb callback raises: never, on its first or on its second call
CallbackFailures == {-1, 0, 1}

NotFetched == [kind |-> "none", reason |-> ""]

FetchIdle ==
    /\ image_info = [id |-> "fake_id", urls |-> <<>>, checksum |-> "0"]
    /\ net = <<>>
    /\ fpc = "idle"
    /\ url_i = 0
    /\ requested = <<>>
    /\ last_error = None
    /\ resp = 0
    /\ chunk_i = 0
    /\ checksum = md5_new
    /\ read_cb = <<>>
    /\ cb_fail = -1
    /\ fetched = NotFetched

FetchInit ==
    /\ image_info \in ImageInfos
    /\ net \in [1..Len(image_info.urls) -> Responses]
    /\ fpc = "start"
    /\ url_i = 0
    /\ requested = <<>>
    /\ last_error = None
    /\ resp = 0
    /\ chunk_i = 0
    /\ checksum = md5_new
    /\ read_cb = <<>>
    /\ cb_fail \in CallbackFailures
    /\ fetched = NotFetched

\* _fetch_image ends by raising
FetchRaise(kind, reason) ==
    /\ fetched' = [kind |-> kind, reason |-> reason]
    /\ fpc' = "done"

\* reason of the ImageDownloadError _request_url raises for a status
StatusReason(status) == "Got HTTP status code of " \o ToString(status)

\* _request_url(image_info, url): the response, or the error it raises
_request_url(r) ==
    IF r.kind = "transport"
    THEN [raised |-> "ConnectionError", reason |-> "connection failed"]
    ELSE IF r.status # 200
    THEN [raised |-> "ImageDownloadError", reason |-> StatusReason(r.status)]
    ELSE [raised |-> "", reason |-> ""]

\* a loop that keeps the first error it caught
caught_keeps_first(previous, e) == IF previous = None THEN e.reason ELSE previous

\* last_error = e in the except clause of the loop
caught(previous, e) == e.reason

\* entry of _fetch_image: no URLs at all
FetchStart ==
    /\ fpc = "start"
    /\ IF image_info.urls = <<>>
       THEN FetchRaise("ImageDownloadError", "No URLs provided") /\ UNCHANGED url_i
       ELSE fpc' = "request" /\ url_i' = 1 /\ UNCHANGED fetched
    /\ UNCHANGED <<image_info, net, requested, last_error, resp, chunk_i,
                   checksum, read_cb, cb_fail, notFetch>>

\* one iteration of the for loop over image_info['urls']
RequestUrl ==
    /\ fpc = "request"
    /\ requested' = Append(requested, image_info.urls[url_i])
    /\ LET r == _request_url(net[url_i])
       IN  CASE r.raised = "" ->
                  \* break: the response is selected, md5.new()
                  /\ resp' = url_i
                  /\ fpc' = "stream"
                  /\ checksum' = md5_new
                  /\ UNCHANGED <<url_i, last_error, fetched>>
             [] r.raised = "ImageDownloadError" ->
                  /\ last_error' = caught(last_error, r)
                  /\ IF url_i < Len(image_info.urls)
                     THEN url_i' = url_i + 1 /\ UNCHANGED <<fpc, fetched>>
                     ELSE \* the loop's else clause
                          FetchRaise("ImageDownloadError", last_error') /\ UNCHANGED url_i
                  /\ UNCHANGED <<resp, checksum>>
             [] OTHER ->
                  \* not an ImageDownloadError: nothing in _fetch_image catches it
                  /\ FetchRaise(r.raised, r.reason)
                  /\ UNCHANGED <<url_i, last_error, resp, checksum>>
    /\ UNCHANGED <<image_info, net, chunk_i, read_cb, cb_fail, notFetch>>

\* an except clause that lets the exception through as it is
stream_error_uncaught(e) == [kind |-> e, reason |-> e]

\* except Exception as e: raise ImageDownloadError(image_id, str(e))
stream_error(e) == [kind |-> "ImageDownloadError", reason |-> e]

\* one iteration of the loop over resp.iter_content: the read of the next
\* chunk, checksum.update(chunk), read_cb(chunk); a failure of the read or
\* of the callback is caught by the except clause around the loop
ReadChunk ==
    /\ fpc = "stream"
    /\ chunk_i < Len(net[resp].body)
    /\ IF net[resp].io_fail = chunk_i
       THEN /\ LET e == stream_error("IOError") IN FetchRaise(e.kind, e.reason)
            /\ UNCHANGED <<chunk_i, checksum, read_cb>>
       ELSE /\ chunk_i' = chunk_i + 1
            /\ checksum' = md5_update(checksum, net[resp].body[chunk_i + 1])
            /\ read_cb' = Append(read_cb, net[resp].body[chunk_i + 1])
            /\ IF cb_fail = chunk_i
               THEN LET e == stream_error("CallbackError")
                    IN  FetchRaise(e.kind, e.reason)
               ELSE UNCHANGED <<fpc, fetched>>
    /\ UNCHANGED <<image_info, net, url_i, requested, last_error, resp, cb_fail,
                   notFetch>>

\* a comparison that accepts every checksum
checksum_differs_never(local, remote) == FALSE

\* checksum comparison of _fetch_image
checksum_differs(local, remote) == local # remote

\* after the body: hexdigest and comparison with image_info['checksum']
VerifyChecksum ==
    /\ fpc = "stream"
    /\ chunk_i = Len(net[resp].body)
    /\ IF checksum_differs(hexdigest(checksum), image_info.checksum)
       THEN FetchRaise("ImageChecksumError", image_info.id)
       ELSE fetched' = [kind |-> "ok", reason |-> ""] /\ fpc' = "done"
    /\ UNCHANGED <<image_info, net, url_i, requested, last_error, resp,
                   chunk_i, checksum, read_cb, cb_fail, notFetch>>

FetchNext == FetchStart \/ RequestUrl \/ ReadChunk \/ VerifyChecksum

DecomIdle ==
    /\ steps = <<>>
    /\ node = IdleNode
    /\ kwargs = IdleKwargs
    /\ oracle = IdleOracle
    /\ result = NoResult
    /\ ctl = "idle"
    /\ ran = <<>>
    /\ calls = 0

FetchSpecInit == FetchInit /\ DecomIdle /\ StandbyIdle /\ HostIdle

FetchSpec == FetchSpecInit /\ [][FetchNext]_vars

(***************************************************************************)
(* The standby commands cache_image and prepare_image, with the image      *)
(* download and the config-drive unpacking of BaseImageManager.            *)
(***************************************************************************)
\* _validate_image_info(ext, image_info): the error it raises, "" when none
_validate_image_info(info) ==
    IF \E field \in {"id", "urls", "checksum"} : info[field] = Absent
    THEN "InvalidCommandParamsError"
    ELSE IF info.urls # "list"
    THEN "InvalidCommandParamsError"
    ELSE IF info.checksum \in {"not_string", ""}
    THEN "InvalidCommandParamsError"
    ELSE ""

_DISK_FORMAT_MAPPING == [f \in {"qcow2"} |-> "QemuImgImageManager"]

\* imaging.get_image_manager: _DISK_FORMAT_MAPPING.get(disk_format, default)
get_image_manager(disk_format, container_format) ==
    IF disk_format \in DOMAIN _DISK_FORMAT_MAPPING
    THEN _DISK_FORMAT_MAPPING[disk_format]
    ELSE "QemuImgImageManager"

\* the managers that have a get_image_manager method
HasGetImageManager(mgr) == mgr # "GenericHardwareManager"

\* get_image_manager(image_info) of a plugged-in manager
hw_get_image_manager(info) ==
    get_image_manager(info.disk_format, info.container_format)

\* get_os_install_device: the first device of 4 GB or more, None without one
InstallDevices == {"/dev/sda", None}

\* open(path, 'w') succeeds for a file in an existing directory
CanOpen(t, path) == t.dir /\ path # TmpDir

open_w(t, path) == [t EXCEPT !.files = @ \cup {path}]

\* shutil.rmtree(path, ignore_errors=True), the outcomes it can have: a
\* directory loses its content and, unless it is busy, goes itself; for a
\* regular file or a missing path os.listdir and os.rmdir fail, the errors
\* are ignored and nothing is removed
_safe_remove_path(t, path) ==
    IF path = TmpDir /\ t.dir
    THEN {[dir |-> d, files |-> {}] : d \in BOOLEAN}
    ELSE {t}

\* the networks the image of a command is downloaded from
CmdNetworks ==
    { <<Http(200, <<<<1>>, <<2>>>>, -1)>>,
      <<Http(500, <<>>, -1)>>,
      <<Http(500, <<>>, -1), Http(200, <<<<1>>, <<2>>>>, -1)>>,
      <<Http(200, <<<<1>>, <<2>>>>, 1)>> }

\* the MD5 of the image the networks serve
CmdImageMD5 == hexdigest(md5_of(md5_new, <<<<1>>, <<2>>>>))

\* 64 * 1024 * 1024
ConfigDriveMaxSize == 67108864

\* a configdrive string: whether it is base64, whether that is a gzip
\* stream, and the size of the unpacked data
ConfigDrives ==
    {[base64 |-> FALSE, gzip |-> FALSE, size |-> 0],
     [base64 |-> TRUE, gzip |-> FALSE, size |-> 0]}
        \cup {[base64 |-> TRUE, gzip |-> TRUE, size |-> n] :
                 n \in {0, ConfigDriveMaxSize, ConfigDriveMaxSize + 1,
                        2 * ConfigDriveMaxSize}}

\* the command result: command_status and the error of a failed command
CommandResult(kind) ==
    /\ command_status' = IF kind = "" THEN "SUCCEEDED" ELSE "FAILED"
    /\ command_error' = kind
    /\ spc' = "done"

\* a command is called: the validator runs, then the command is started
CommandCall ==
    /\ spc = "idle"
    /\ \E c \in Commands :
          /\ cmd' = c
          /\ IF _validate_image_info(c.image_info) # ""
             THEN /\ CommandResult(_validate_image_info(c.image_info))
                  /\ web' = <<>>
             ELSE /\ command_status' = "RUNNING"
                  /\ command_error' = ""
                  /\ spc' = "manager"
                  /\ web' \in CmdNetworks
    /\ cached0' = cached_image_id
    /\ events' = <<>>
    /\ UNCHANGED <<hw_mgr, cached_image_id, device, img_mgr, tmp, cd_size, last_write,
                   fetchVars, notStandby>>

\* hardware.get_manager(), get_os_install_device(), get_image_manager()
ResolveManagers ==
    /\ spc = "manager"
    /\ device' \in InstallDevices
    /\ IF HasGetImageManager(hw_mgr)
       THEN /\ img_mgr' = hw_get_image_manager(cmd.image_info)
            /\ events' = events \o <<"get_manager", "get_os_install_device",
                                      "get_image_manager">>
            /\ spc' = "write_image"
            /\ UNCHANGED <<command_status, command_error>>
       ELSE /\ events' = events \o <<"get_manager", "get_os_install_device">>
            /\ CommandResult("AttributeError")
            /\ UNCHANGED img_mgr
    /\ UNCHANGED <<hw_mgr, cached_image_id, cached0, cmd, web, tmp, cd_size, last_write,
                   fetchVars, notStandby>>

\* a cache test that does not look at force
must_write_unforced(cached, id, force) == cached # id

\* if self.cached_image_id != image_info['id'] or force
must_write(cached, id, force) == cached # id \/ force

\* _write_image: the cache test
WriteImage ==
    /\ spc = "write_image"
    /\ IF must_write(cached_image_id, cmd.image_info.id, cmd.force)
       THEN /\ events' = Append(events, "write_os_image")
            /\ spc' = "download"
       ELSE /\ spc' = "written"
            /\ UNCHANGED events
    /\ UNCHANGED <<hw_mgr, cached_image_id, cached0, cmd, web, command_status,
                   command_error, device, img_mgr, tmp, cd_size, last_write, fetchVars,
                   notStandby>>

\* _download_image: open(location, 'w') and the call of _fetch_image
DownloadOpen ==
    /\ spc = "download"
    /\ img_mgr = "QemuImgImageManager"
    /\ LET location == _image_location(cmd.image_info)
       IN  IF CanOpen(tmp, location)
           THEN /\ tmp' = open_w(tmp, location)
                /\ events' = Append(events, "open")
                /\ spc' = "fetch"
                /\ net' = web
                /\ image_info' =
                      [id |-> cmd.image_info.id,
                       urls |-> [i \in 1..Len(web) |-> UrlName(i)],
                       checksum |-> cmd.image_info.checksum]
                /\ cb_fail' \in {-1, 0}
                /\ fpc' = "start"
                /\ UNCHANGED <<command_status, command_error, url_i,
                               requested, last_error, resp, chunk_i, checksum,
                               read_cb, fetched>>
           ELSE /\ tmp' \in _safe_remove_path(tmp, location)
                /\ CommandResult("IOError")
                /\ UNCHANGED <<events, fetchVars>>
    /\ UNCHANGED <<hw_mgr, cached_image_id, cached0, cmd, web, device, img_mgr,
                   cd_size, last_write, notStandby>>

\* the frame of _fetch_image is gone
FetchLeave ==
    /\ image_info' = [id |-> "fake_id", urls |-> <<>>, checksum |-> "0"]
    /\ net' = <<>>
    /\ fpc' = "idle"
    /\ url_i' = 0
    /\ requested' = <<>>
    /\ last_error' = None
    /\ resp' = 0
    /\ chunk_i' = 0
    /\ checksum' = md5_new
    /\ read_cb' = <<>>
    /\ cb_fail' = -1
    /\ fetched' = NotFetched

\* _fetch_image raised: the finally clause of _download_image, and the
\* exception ends the command
DownloadFailed ==
    /\ spc = "fetch" /\ fpc = "done" /\ fetched.kind # "ok"
    /\ tmp' \in _safe_remove_path(tmp, _image_location(cmd.image_info))
    /\ CommandResult(fetched.kind)
    /\ FetchLeave
    /\ UNCHANGED <<hw_mgr, cached_image_id, cached0, cmd, web, events, device,
                   img_mgr, cd_size, last_write, notStandby>>

\* _fetch_image returned: the file is closed and its location yielded
DownloadYield ==
    /\ spc = "fetch" /\ fpc = "done" /\ fetched.kind = "ok"
    /\ spc' = "in_use"
    /\ UNCHANGED <<hw_mgr, cached_image_id, cached0, cmd, web, events,
                   command_status, command_error, device, img_mgr, tmp,
                   cd_size, last_write, fetchVars, notStandby>>

\* the body of the with statement in write_os_image, the finally clause of
\* _download_image and, when nothing was raised, the cache update
WriteOsImage ==
    /\ spc = "in_use"
    /\ tmp' \in _safe_remove_path(tmp, _image_location(cmd.image_info))
    /\ FetchLeave
    /\ IF device = None
       THEN \* ' '.join(command) with a None in it
            /\ CommandResult("TypeError")
            /\ UNCHANGED <<events, cached_image_id, last_write>>
       ELSE /\ events' = Append(events, "qemu_img_write_image.sh")
            /\ \E exit_code \in {0, 1} :
                  /\ last_write' = ImageWrite(cmd.image_info.id, exit_code = 0)
                  /\ IF exit_code = 0
                     THEN /\ cached_image_id' = cmd.image_info.id
                          /\ spc' = "written"
                          /\ UNCHANGED <<command_status, command_error>>
                     ELSE /\ CommandResult("ImageWriteError")
                          /\ UNCHANGED cached_image_id
    /\ UNCHANGED <<hw_mgr, cached0, cmd, web, device, img_mgr, cd_size, notStandby>>

\* a test that finds a configdrive in every call
no_configdrive_never(configdrive) == FALSE

\* if configdrive is None
no_configdrive(configdrive) == configdrive = None

\* after _write_image: the end of cache_image, the configdrive test of
\* prepare_image
ImageWritten ==
    /\ spc = "written"
    /\ IF cmd.name = "cache_image" \/ no_configdrive(cmd.configdrive)
       THEN CommandResult("") /\ UNCHANGED events
       ELSE /\ events' = Append(events, "write_configdrive")
            /\ spc' = "configdrive"
            /\ UNCHANGED <<command_status, command_error>>
    /\ UNCHANGED <<hw_mgr, cached_image_id, cached0, cmd, web, device, img_mgr, tmp,
                   cd_size, last_write, fetchVars, notStandby>>

\* _unpack_configdrive up to its yield
UnpackConfigdrive ==
    /\ spc = "configdrive"
    /\ \E cd \in ConfigDrives :
          IF ~cd.base64
          THEN \* base64.b64decode raises before the try statement
               /\ CommandResult("TypeError")
               /\ UNCHANGED <<tmp, cd_size>>
          ELSE IF ~CanOpen(tmp, _configdrive_location)
          THEN /\ tmp' \in _safe_remove_path(tmp, _configdrive_location)
               /\ CommandResult("IOError")
               /\ UNCHANGED cd_size
          ELSE IF ~cd.gzip
          THEN \* the file is open when gunzipped.read() raises
               /\ tmp' \in _safe_remove_path(open_w(tmp, _configdrive_location),
                                             _configdrive_location)
               /\ CommandResult("IOError")
               /\ UNCHANGED cd_size
          ELSE /\ cd_size' = cd.size
               /\ IF cd.size > ConfigDriveMaxSize
                  THEN /\ tmp' \in _safe_remove_path(
                                      open_w(tmp, _configdrive_location),
                                      _configdrive_location)
                       /\ CommandResult("ConfigDriveTooLargeError")
                  ELSE /\ tmp' = open_w(tmp, _configdrive_location)
                       /\ spc' = "cd_in_use"
                       /\ UNCHANGED <<command_status, command_error>>
    /\ UNCHANGED <<hw_mgr, cached_image_id, cached0, cmd, web, events, device,
                   img_mgr, last_write, fetchVars, notStandby>>

\* the body of the with statement in write_configdrive and the finally
\* clause of _unpack_configdrive
WriteConfigdrive ==
    /\ spc = "cd_in_use"
    /\ tmp' \in _safe_remove_path(tmp, _configdrive_location)
    /\ IF device = None
       THEN CommandResult("TypeError") /\ UNCHANGED events
       ELSE /\ events' = Append(events, "copy_configdrive_to_disk.sh")
            /\ \E exit_code \in {0, 1} :
                  CommandResult(IF exit_code = 0 THEN ""
                                ELSE "ConfigDriveWriteError")
    /\ UNCHANGED <<hw_mgr, cached_image_id, cached0, cmd, web, device, img_mgr,
                   cd_size, last_write, fetchVars, notStandby>>

\* the result is collected; the extension waits for the next command
CommandDone ==
    /\ spc = "done"
    /\ spc' = "idle"
    /\ cmd' = NoCommand
    /\ web' = <<>>
    /\ cached0' = cached_image_id
    /\ events' = <<>>
    /\ command_status' = "none"
    /\ command_error' = ""
    /\ device' = None
    /\ img_mgr' = None
    /\ cd_size' = -1
    /\ UNCHANGED <<hw_mgr, cached_image_id, tmp, last_write, fetchVars,
                   notStandby>>

StandbyInit ==
    /\ hw_mgr \in HardwareManagers
    /\ cached_image_id = None
    /\ cached0 = None
    /\ cmd = NoCommand
    /\ web = <<>>
    /\ spc = "idle"
    /\ events = <<>>
    /\ command_status = "none"
    /\ command_error = ""
    /\ device = None
    /\ img_mgr = None
    /\ tmp = EmptyTmp
    /\ cd_size = -1
    /\ last_write = NoWrite

StandbyNext ==
    \/ CommandCall \/ ResolveManagers \/ WriteImage \/ DownloadOpen
    \/ (spc = "fetch" /\ FetchNext)
    \/ DownloadFailed \/ DownloadYield \/ WriteOsImage \/ ImageWritten
    \/ UnpackConfigdrive \/ WriteConfigdrive \/ CommandDone

StandbySpecInit == StandbyInit /\ FetchIdle /\ DecomIdle /\ HostIdle

StandbySpec == StandbySpecInit /\ [][StandbyNext]_vars

(***************************************************************************)
(* Single decommission commands with arbitrary inputs.                     *)
(***************************************************************************)
DecomInit ==
    /\ steps \in StepLists
    /\ node = IdleNode
    /\ kwargs = IdleKwargs
    /\ oracle = IdleOracle
    /\ result = NoResult
    /\ ctl = "command"
    /\ ran = <<>>
    /\ calls = 0

\* the decommission command arrives with a node and kwargs and is handled
Decommission ==
    /\ ctl = "command"
    /\ \E r \in Requests, orc \in Oracles :
          /\ node' = r.node
          /\ kwargs' = r.kwargs
          /\ oracle' = orc
          /\ result' = decommission(steps, r.node, r.kwargs, orc)
          /\ ran' = result'.invoked
    /\ calls' = 1
    /\ ctl' = "replied"
    /\ UNCHANGED <<steps, notDecom>>

\* the command result is handed back; the engine keeps nothing of the call
Reply ==
    /\ ctl = "replied"
    /\ node' = IdleNode
    /\ kwargs' = IdleKwargs
    /\ oracle' = IdleOracle
    /\ result' = NoResult
    /\ ran' = <<>>
    /\ calls' = 0
    /\ ctl' = "command"
    /\ UNCHANGED <<steps, notDecom>>

DecomNext == Decommission \/ Reply

Init == DecomInit /\ FetchIdle /\ StandbyIdle /\ HostIdle

Spec == Init /\ [][DecomNext]_vars

(***************************************************************************)
(* A decommission walk: the controller starts at the lowest-priority      *)
(* state and threads decommission_next_state and hardware_manager_version *)
(* of each result back through driver_info; every step function succeeds. *)
(***************************************************************************)
\* The walk the controller expects, stated without the engine's sort: the
\* prioritized steps by ascending priority, equal priorities in list order.
Prioritized == {i \in 1..Len(steps) : ~steps[i].priority.none}

Before(j, i) == \/ steps[j].priority.val < steps[i].priority.val
                \/ steps[j].priority.val = steps[i].priority.val /\ j < i

Rank(i) == Cardinality({j \in Prioritized : Before(j, i)}) + 1

SortedStates ==
    [k \in 1..Cardinality(Prioritized) |->
        steps[CHOOSE i \in Prioritized : Rank(i) = k].state]

\* calls the controller makes before it gives up (only a faulty engine gets there)
WalkCallCap == MaxSteps + 2

WalkStart(target) ==
    [driver_info |-> [has_target |-> TRUE,
                      decommission_target_state |-> target,
                      hardware_manager_version |-> None]]

WalkInit ==
    /\ steps \in StepLists
    /\ Prioritized # {}
    /\ node \in {WalkStart(None), WalkStart(SortedStates[1])}
    /\ kwargs = IdleKwargs
    /\ oracle = IdleOracle
    /\ result = NoResult
    /\ ctl = "call"
    /\ ran = <<>>
    /\ calls = 0

\* the agent handles one decommission command of the walk
WalkDecommission ==
    /\ ctl = "call"
    /\ calls < WalkCallCap
    /\ \E orc \in {o \in Oracles : o.outcome = "ok"} :
          /\ oracle' = orc
          /\ result' = decommission(steps, node, kwargs, orc)
          /\ ran' = ran \o result'.invoked
    /\ calls' = calls + 1
    /\ ctl' = "save"
    /\ UNCHANGED <<steps, node, kwargs, notDecom>>

\* the controller saves the result in Node.driver_info and sends it back
ControllerSave ==
    /\ ctl = "save"
    /\ IF result.kind = "return" /\ result.keys = ResultKeys
       THEN IF result.decommission_next_state = "DONE"
            THEN ctl' = "done" /\ UNCHANGED node
            ELSE /\ ctl' = "call"
                 /\ node' = [driver_info |->
                        [has_target |-> TRUE,
                         decommission_target_state |-> result.decommission_next_state,
                         hardware_manager_version |-> result.hardware_manager_version]]
       ELSE ctl' = "failed" /\ UNCHANGED node
    /\ UNCHANGED <<steps, kwargs, oracle, result, ran, calls, notDecom>>

WalkNext == WalkDecommission \/ ControllerSave

WalkSpecInit == WalkInit /\ FetchIdle /\ StandbyIdle /\ HostIdle

WalkSpec == WalkSpecInit /\ [][WalkNext]_vars
               /\ WF_vars(WalkDecommission) /\ WF_vars(ControllerSave)

\* the guards of WalkDecommission and ControllerSave: some step of the walk is enabled
WalkCanStep == (ctl = "call" /\ calls < WalkCallCap) \/ ctl = "save"

IsPrefix(a, b) == Len(a) <= Len(b) /\ a = SubSeq(b, 1, Len(a))

(***************************************************************************)
(* ATA secure erase: GenericHardwareManager._ata_erase.                    *)
(***************************************************************************)
\* decommission engine, image fetcher and standby extension at rest
CoreIdle == DecomIdle /\ FetchIdle /\ StandbyIdle

\* the lines _get_ata_security_lines can return: the tab-indented lines after
\* the Security header, stripped; no line when the header is missing
SecurityLines ==
    SUBSET {"supported", "not supported", "enabled", "not enabled",
            "frozen", "not frozen"}

Hdparm(op, exit_code) == [op |-> op, exit_code |-> exit_code]

\* a guard that does not look at the frozen state
ata_guard_thawed(lines) ==
    IF "supported" \notin lines THEN [kind |-> "return", reason |-> "False"]
    ELSE IF "enabled" \in lines
    THEN [kind |-> "BlockDeviceEraseError", reason |-> "already has a password"]
    ELSE [kind |-> "go", reason |-> ""]

\* the three tests of _ata_erase before it writes to the device
ata_guard(lines) ==
    IF "supported" \notin lines THEN [kind |-> "return", reason |-> "False"]
    ELSE IF "enabled" \in lines
    THEN [kind |-> "BlockDeviceEraseError", reason |-> "already has a password"]
    ELSE IF "not frozen" \notin lines
    THEN [kind |-> "BlockDeviceEraseError", reason |-> "frozen"]
    ELSE [kind |-> "go", reason |-> ""]

\* a verification that takes every state of the device
ata_verify_any(lines) == [kind |-> "return", reason |-> "True"]

\* the test of _ata_erase after the erase
ata_verify(lines) ==
    IF "not enabled" \notin lines
    THEN [kind |-> "BlockDeviceEraseError", reason |-> "unknown error"]
    ELSE [kind |-> "return", reason |-> "True"]

\* the process runner fails for an exit code outside the accepted ones
ExecutionError == [kind |-> "CommandExecution", reason |-> ""]

AtaEnd(r) == ata_result' = r /\ epc' = "done"

MaxEraseDevices == 2

\* erase_devices calls looked at
EraseCallCap == 2

\* the positional parameters of erase_devices besides self: driver_info
erase_devices_params == 1

\* the arguments each caller passes: DecomExtension.erase_hardware calls
\* erase_devices(), decommission calls func(node, ports), and a caller that
\* follows the signature passes driver_info
EraseEntries == [erase_hardware |-> 0, decommission |-> 2, erase_devices |-> 1]

\* a device with a security password reports 'enabled', one without reports
\* 'not enabled'; a report may lack lines but does not state the opposite
ReadableLines(password) ==
    {l \in SecurityLines :
        /\ password = "none" => "enabled" \notin l
        /\ password # "none" => "not enabled" \notin l}

\* _get_ata_security_lines and the tests on its result
AtaGuard ==
    /\ epc = "start"
    /\ \E exit_code \in {0, 1} :
          /\ hdparm' = Append(hdparm, Hdparm("-I", exit_code))
          /\ IF exit_code # 0
             THEN AtaEnd(ExecutionError) /\ UNCHANGED security_lines
             ELSE /\ security_lines' \in ReadableLines(dev_password[erase_i])
                  /\ IF ata_guard(security_lines').kind = "go"
                     THEN epc' = "set_pass" /\ UNCHANGED ata_result
                     ELSE AtaEnd(ata_guard(security_lines'))
    /\ UNCHANGED <<verify_lines, eraseOpVars, dev_password, notErase>>

\* hdparm --user-master u --security-set-pass NULL: with exit 0 the device
\* carries the driver's password
SetPass ==
    /\ epc = "set_pass"
    /\ \E exit_code \in {0, 1} :
          /\ hdparm' = Append(hdparm, Hdparm("--security-set-pass", exit_code))
          /\ IF exit_code # 0
             THEN AtaEnd(ExecutionError) /\ UNCHANGED dev_password
             ELSE /\ epc' = "erase"
                  /\ dev_password' = [dev_password EXCEPT ![erase_i] = "driver"]
                  /\ UNCHANGED ata_result
    /\ UNCHANGED <<security_lines, verify_lines, eraseOpVars, notErase>>

\* hdparm --user-master u --security-erase NULL: a completed erase clears the
\* password, unless the device keeps it
SecurityErase ==
    /\ epc = "erase"
    /\ \E exit_code \in {0, 1} :
          /\ hdparm' = Append(hdparm, Hdparm("--security-erase", exit_code))
          /\ IF exit_code # 0
             THEN AtaEnd(ExecutionError) /\ UNCHANGED dev_password
             ELSE /\ epc' = "verify"
                  /\ \E pw \in {"none", dev_password[erase_i]} :
                        dev_password' = [dev_password EXCEPT ![erase_i] = pw]
                  /\ UNCHANGED ata_result
    /\ UNCHANGED <<security_lines, verify_lines, eraseOpVars, notErase>>

\* the security lines are read again and tested
VerifyErased ==
    /\ epc = "verify"
    /\ \E exit_code \in {0, 1} :
          /\ hdparm' = Append(hdparm, Hdparm("-I", exit_code))
          /\ IF exit_code # 0
             THEN AtaEnd(ExecutionError) /\ UNCHANGED verify_lines
             ELSE /\ verify_lines' \in ReadableLines(dev_password[erase_i])
                  /\ AtaEnd(ata_verify(verify_lines'))
    /\ UNCHANGED <<security_lines, eraseOpVars, dev_password, notErase>>

\* an erase_block_device that takes an unsupported device for erased
erase_block_device_lenient(r) ==
    IF r.kind = "return" THEN [kind |-> "return", reason |-> ""] ELSE r

\* erase_block_device: returns after _ata_erase returned True, raises when it
\* returned False, and lets its errors pass
erase_block_device(r) ==
    IF r = [kind |-> "return", reason |-> "True"]
    THEN [kind |-> "return", reason |-> ""]
    ELSE IF r = [kind |-> "return", reason |-> "False"]
    THEN [kind |-> "BlockDeviceEraseError", reason |-> "unsupported"]
    ELSE r

\* the device at hand is fresh: nothing read, nothing executed
NextDevice ==
    /\ security_lines' = {}
    /\ verify_lines' = {}
    /\ hdparm' = <<>>
    /\ ata_result' = NoAtaResult

\* erase_devices is called; with the wrong number of arguments the call
\* raises TypeError, which decommission wraps into a DecommissionError
EraseDevices ==
    /\ epc \in {"call", "finished"}
    /\ erase_calls < EraseCallCap
    /\ erase_calls' = erase_calls + 1
    /\ erase_log' = <<>>
    /\ NextDevice
    /\ \E entry \in DOMAIN EraseEntries :
          /\ erase_entry' = entry
          /\ IF EraseEntries[entry] # erase_devices_params
             THEN /\ erase_result' =
                        IF entry = "decommission"
                        THEN [kind |-> "DecommissionError", reason |-> "TypeError"]
                        ELSE [kind |-> "TypeError", reason |-> ""]
                  /\ erase_i' = 0
                  /\ epc' = "finished"
             ELSE IF n_block_devices = 0
             THEN /\ erase_result' = [kind |-> "return", reason |-> ""]
                  /\ erase_i' = 0
                  /\ epc' = "finished"
             ELSE /\ erase_result' = NoAtaResult
                  /\ erase_i' = 1
                  /\ epc' = "start"
    /\ UNCHANGED <<n_block_devices, dev_password, notErase>>

\* erase_block_device ends: the loop of erase_devices goes on to the next
\* device, ends, or is left by the error
EraseBlockDeviceEnd ==
    /\ epc = "done"
    /\ LET outcome == erase_block_device(ata_result)
       IN  /\ erase_log' = Append(erase_log,
                                  [dev |-> erase_i, hdparm |-> hdparm,
                                   result |-> outcome])
           /\ IF outcome.kind = "return" /\ erase_i < n_block_devices
              THEN /\ erase_i' = erase_i + 1
                   /\ epc' = "start"
                   /\ NextDevice
                   /\ UNCHANGED erase_result
              ELSE /\ erase_result' = outcome
                   /\ epc' = "finished"
                   /\ UNCHANGED <<erase_i, security_lines, verify_lines,
                                  hdparm, ata_result>>
    /\ UNCHANGED <<erase_entry, n_block_devices, erase_calls, dev_password,
                   notErase>>

EraseInit ==
    /\ epc = "call"
    /\ security_lines = {}
    /\ verify_lines = {}
    /\ hdparm = <<>>
    /\ ata_result = NoAtaResult
    /\ erase_entry = "none"
    /\ erase_i = 0
    /\ n_block_devices \in 0..MaxEraseDevices
    /\ dev_password \in [1..n_block_devices -> {"none", "foreign"}]
    /\ erase_log = <<>>
    /\ erase_result = NoAtaResult
    /\ erase_calls = 0

EraseNext ==
    \/ EraseDevices
    \/ AtaGuard \/ SetPass \/ SecurityErase \/ VerifyErased
    \/ EraseBlockDeviceEnd

EraseSpecInit ==
    EraseInit /\ CoreIdle /\ AuxIdle /\ MgrIdle /\ VerifyIdle /\ RescueIdle /\ MetricsIdle

EraseSpec == EraseSpecInit /\ [][EraseNext]_vars

(***************************************************************************)
(* Election of the hardware manager: hardware.get_manager.                 *)
(***************************************************************************)
MaxManagers == 2
MaxRank == 2
MaxCalls == 3

\* HardwareSupport.NONE
NONE == 0

\* an ordering that prefers the lower rank
_compare_extensions_ascending(r, ext1, ext2) == r[ext1] - r[ext2]

\* negative when ext1 goes before ext2
_compare_extensions(r, ext1, ext2) == r[ext2] - r[ext1]

\* sorted(): x goes before the first element it compares below, so that equal
\* elements keep their order
insort(r, srt, x) ==
    LET Below == {i \in 1..Len(srt) : _compare_extensions(r, x, srt[i]) < 0}
        at == IF Below = {} THEN Len(srt) + 1
              ELSE CHOOSE i \in Below : \A j \in Below : i <= j
    IN  SubSeq(srt, 1, at - 1) \o <<x>> \o SubSeq(srt, at, Len(srt))

RECURSIVE sorted_extensions(_, _)
sorted_extensions(r, n) ==
    IF n = 0 THEN <<>> ELSE insort(r, sorted_extensions(r, n - 1), n)

\* sorted(extension_manager, _compare_extensions)[0]
preferred_extension(r) == sorted_extensions(r, Len(r))[1]

\* get_manager is entered and tests _global_manager
GetManager(w) ==
    /\ wpc[w] = "idle"
    /\ mgr_calls < MaxCalls
    /\ mgr_calls' = mgr_calls + 1
    /\ late' = [late EXCEPT ![w] = first # NoManager]
    /\ got' = [got EXCEPT ![w] = Got("pending", NoManager)]
    /\ wpc' = [wpc EXCEPT ![w] =
                  IF _global_manager = NoManager THEN "load" ELSE "return"]
    /\ UNCHANGED <<_global_manager, ranks, loads, first, notMgr>>

\* the entry points are loaded and instantiated, sorted, the first one is
\* tested and stored
Elect(w) ==
    /\ wpc[w] = "load"
    /\ loads' = loads + 1
    /\ LET preferred_manager == Manager(loads', preferred_extension(ranks))
       IN  IF ranks[preferred_manager.idx] <= NONE
           THEN /\ got' = [got EXCEPT ![w] = Got("RuntimeError", NoManager)]
                /\ wpc' = [wpc EXCEPT ![w] = "idle"]
                /\ UNCHANGED _global_manager
           ELSE /\ _global_manager' = preferred_manager
                /\ wpc' = [wpc EXCEPT ![w] = "return"]
                /\ UNCHANGED got
    /\ UNCHANGED <<ranks, late, first, mgr_calls, notMgr>>

\* return _global_manager
ReturnManager(w) ==
    /\ wpc[w] = "return"
    /\ got' = [got EXCEPT ![w] = Got("return", _global_manager)]
    /\ first' = IF first = NoManager THEN _global_manager ELSE first
    /\ wpc' = [wpc EXCEPT ![w] = "idle"]
    /\ UNCHANGED <<_global_manager, ranks, loads, late, mgr_calls, notMgr>>

\* the hardware changes what a manager's evaluate_hardware_support returns
RankChange ==
    /\ \E i \in 1..Len(ranks), v \in NONE..MaxRank :
          /\ v # ranks[i]
          /\ ranks' = [ranks EXCEPT ![i] = v]
    /\ UNCHANGED <<_global_manager, loads, wpc, got, late, first, mgr_calls,
                   notMgr>>

MgrInit ==
    /\ _global_manager = NoManager
    /\ ranks \in UNION {[1..n -> NONE..MaxRank] : n \in 1..MaxManagers}
    /\ loads = 0
    /\ wpc = [w \in Workers |-> "idle"]
    /\ got = [w \in Workers |-> NotCalled]
    /\ late = [w \in Workers |-> FALSE]
    /\ first = NoManager
    /\ mgr_calls = 0

MgrNext ==
    \/ \E w \in Workers : GetManager(w) \/ Elect(w) \/ ReturnManager(w)
    \/ RankChange

ManagerSpecInit ==
    MgrInit /\ CoreIdle /\ AuxIdle /\ EraseIdle /\ VerifyIdle /\ RescueIdle /\ MetricsIdle

ManagerSpec == ManagerSpecInit /\ [][MgrNext]_vars

(***************************************************************************)
(* Inventory and verification: get_os_install_device, verify_properties.   *)
(* A size in bytes is the pair gib * 1024^3 + rem with 0 <= rem < 1024^3,  *)
(* because 4 * 1024^3 is beyond the integers of the model checker.         *)
(***************************************************************************)
MaxDisks == 2

\* pow(1024, 3) - 1, the largest remainder of a size
GiBRem == 1073741823

Size(gib, rem) == [gib |-> gib, rem |-> rem]

\* 4 * pow(1024, 3)
FourGiB == Size(4, 0)

SizeLess(a, b) == a.gib < b.gib \/ (a.gib = b.gib /\ a.rem < b.rem)

SizeAtLeast(a, b) == ~SizeLess(a, b)

\* size / (1024 * 1024 * 1024) on integers
SizeGiB(a) == a.gib

DiskSizes == {Size(3, GiBRem), Size(4, 0), Size(4, 1), Size(5, 0)}

DevNames == <<"/dev/sda", "/dev/sdb", "/dev/sdc", "/dev/sdd">>

BlockDevice(name, size) == [name |-> name, size |-> size]

\* what lsblk can list: up to MaxDisks disks, named in the order listed
BlockDeviceLists ==
    UNION {{[i \in 1..n |-> BlockDevice(DevNames[i], sz[i])] :
              sz \in [1..n -> DiskSizes]} : n \in 0..MaxDisks}

\* block_devices.sort(key=size): x goes before the first larger device, so
\* that devices of equal size keep their order
sort_insert(srt, x) ==
    LET Larger == {i \in 1..Len(srt) : SizeLess(x.size, srt[i].size)}
        at == IF Larger = {} THEN Len(srt) + 1
              ELSE CHOOSE i \in Larger : \A j \in Larger : i <= j
    IN  SubSeq(srt, 1, at - 1) \o <<x>> \o SubSeq(srt, at, Len(srt))

RECURSIVE sort_by_size(_, _)
sort_by_size(devices, n) ==
    IF n = 0 THEN <<>>
    ELSE sort_insert(sort_by_size(devices, n - 1), devices[n])

\* a test that leaves out the device of exactly 4 GiB
large_enough_strict(size) == SizeLess(FourGiB, size)

\* device.size >= (4 * pow(1024, 3))
large_enough(size) == SizeAtLeast(size, FourGiB)

get_os_install_device(devices) ==
    LET block_devices == sort_by_size(devices, Len(devices))
        Fit == {i \in 1..Len(block_devices) :
                  large_enough(block_devices[i].size)}
    IN  IF Fit = {} THEN None
        ELSE block_devices[CHOOSE i \in Fit : \A j \in Fit : i <= j].name

\* dict.get with a default
dict_get(d, key, default) == IF key \in DOMAIN d THEN d[key] ELSE default

Verified == [kind |-> "ok", field |-> ""]

VerificationError == [kind |-> "VerificationError", field |-> ""]

VerificationFailed(field) == [kind |-> "VerificationFailed", field |-> field]

\* raised by disk.size when disk is None
AttributeError == [kind |-> "AttributeError", field |-> "local_gb"]

_verify_cpu_count(props, hw) ==
    LET given == hw.cpu.value
        actual == dict_get(props, "cpus", 0)
    IN  IF given # actual THEN VerificationFailed("cpus") ELSE Verified

_verify_memory_size(props, hw) ==
    LET given == hw.memory.value \div (1024 * 1024)
        actual == dict_get(props, "memory_mb", 0)
    IN  IF given # actual THEN VerificationFailed("memory_mb") ELSE Verified

_verify_disks_size(props, hw) ==
    LET actual == dict_get(props, "local_gb", 0)
        name == get_os_install_device(hw.disks.value)
        Named == {i \in 1..Len(hw.disks.value) : hw.disks.value[i].name = name}
    IN  IF Named = {}
        THEN IF actual > 0 THEN VerificationFailed("local_gb")
             ELSE AttributeError
        ELSE LET disk == hw.disks.value[CHOOSE i \in Named :
                                           \A j \in Named : i <= j]
                 given == SizeGiB(disk.size)
             IN  IF given # actual THEN VerificationFailed("local_gb")
                 ELSE Verified

\* not hardware.get(key)
Missing(hw, key) ==
    \/ ~hw[key].present
    \/ key = "disks" /\ hw.disks.value = <<>>

verify_properties(props, hw) ==
    IF \E key \in {"cpu", "memory", "disks"} : Missing(hw, key)
    THEN VerificationError
    ELSE IF _verify_cpu_count(props, hw) # Verified
    THEN _verify_cpu_count(props, hw)
    ELSE IF _verify_memory_size(props, hw) # Verified
    THEN _verify_memory_size(props, hw)
    ELSE _verify_disks_size(props, hw)

CpuCounts == {1, 2}

\* 8 MiB, one byte less, one byte more
MemoryTotals == {8388607, 8388608, 8388609}

Inventories ==
    [cpu : {Entry(FALSE, 0)} \cup {Entry(TRUE, c) : c \in CpuCounts},
     memory : {Entry(FALSE, 0)} \cup {Entry(TRUE, m) : m \in MemoryTotals},
     disks : {Entry(FALSE, <<>>)} \cup
             {Entry(TRUE, d) : d \in BlockDeviceLists}]

PropertyValues ==
    [cpus |-> {0, 1, 2}, memory_mb |-> {7, 8}, local_gb |-> {0, 3, 4}]

NodeProperties ==
    UNION {{p \in [K -> 0..8] : \A k \in K : p[k] \in PropertyValues[k]} :
              K \in SUBSET {"cpus", "memory_mb", "local_gb"}}

GetOsInstallDevice ==
    /\ vpc = "start"
    /\ hardware.disks.present
    /\ install_device' = get_os_install_device(hardware.disks.value)
    /\ vpc' = "device"
    /\ UNCHANGED <<hardware, properties, verify_result, notVerify>>

VerifyProperties ==
    /\ vpc \in {"start", "device"}
    /\ verify_result' = verify_properties(properties, hardware)
    /\ vpc' = "done"
    /\ UNCHANGED <<hardware, properties, install_device, notVerify>>

VerifyInit ==
    /\ hardware \in Inventories
    /\ properties \in NodeProperties
    /\ vpc = "start"
    /\ install_device = None
    /\ verify_result = NoVerifyResult

VerifyNext == GetOsInstallDevice \/ VerifyProperties

VerifySpecInit ==
    VerifyInit /\ CoreIdle /\ AuxIdle /\ EraseIdle /\ MgrIdle /\ RescueIdle /\ MetricsIdle

VerifySpec == VerifySpecInit /\ [][VerifyNext]_vars

(***************************************************************************)
(* Rescue: RescueExtension.finalize_rescue.                                *)
(***************************************************************************)
MaxRescueCalls == 2

\* two of the salts make_salt can return
Salts == {"aZ", "09"}

\* crypt.crypt: the hash begins with the salt
crypt(word, salt) == salt \o "#" \o word

\* base64 texts and what they decode to
Base64 == [Zm9v |-> "foo", YmFy |-> "bar"]

\* a text whose padding is wrong
BadBase64 == "Zm9"

b64decode(text) ==
    IF text \in DOMAIN Base64 THEN Base64[text] ELSE "TypeError"

RescuePasswords == {"hunter2", "secret"}

RescueConfigdrives == DOMAIN Base64 \cup {BadBase64}

\* open(path, 'w') and write: done; open fails; open truncates and write fails
FileOutcomes == {"written", "open_fails", "write_fails"}

open_write(e, path, data, outcome) ==
    CASE outcome = "written"     -> [e EXCEPT ![path] = data]
      [] outcome = "open_fails"  -> e
      [] outcome = "write_fails" -> [e EXCEPT ![path] = ""]

\* serve_api is left as it was
serve_api_kept == TRUE

\* self.agent.serve_api = False
serve_api_stopped == FALSE

RescueRaise(error) ==
    /\ rescue_result' = error
    /\ rpc' = "done"

FinalizeRescue ==
    /\ rpc \in {"idle", "done"}
    /\ rescue_calls < MaxRescueCalls
    /\ rescue_calls' = rescue_calls + 1
    /\ rescue_args' \in {RescueArgs(pw, cd) :
                            pw \in RescuePasswords, cd \in RescueConfigdrives}
    /\ written' = <<>>
    /\ rescue_result' = "none"
    /\ rpc' = "password"
    /\ UNCHANGED <<serve_api, etc, notRescue>>

write_rescue_password ==
    /\ rpc = "password"
    /\ \E salt \in Salts, outcome \in FileOutcomes :
          /\ etc' = open_write(etc, pass_file,
                               crypt(rescue_args.rescue_password, salt), outcome)
          /\ IF outcome = "written"
             THEN /\ written' = Append(written, pass_file)
                  /\ rpc' = "configdrive"
                  /\ UNCHANGED rescue_result
             ELSE RescueRaise("IOError") /\ UNCHANGED written
    /\ UNCHANGED <<serve_api, rescue_args, rescue_calls, notRescue>>

write_configdrive ==
    /\ rpc = "configdrive"
    /\ LET decoded_cfgdrive == b64decode(rescue_args.configdrive)
       IN  IF decoded_cfgdrive = "TypeError"
           THEN RescueRaise("TypeError") /\ UNCHANGED <<etc, written>>
           ELSE \E outcome \in FileOutcomes :
                  /\ etc' = open_write(etc, configdrive_file, decoded_cfgdrive,
                                       outcome)
                  /\ IF outcome = "written"
                     THEN /\ written' = Append(written, configdrive_file)
                          /\ rpc' = "flag"
                          /\ UNCHANGED rescue_result
                     ELSE RescueRaise("IOError") /\ UNCHANGED written
    /\ UNCHANGED <<serve_api, rescue_args, rescue_calls, notRescue>>

StopServing ==
    /\ rpc = "flag"
    /\ serve_api' = serve_api_stopped
    /\ rescue_result' = "ok"
    /\ rpc' = "done"
    /\ UNCHANGED <<rescue_args, etc, written, rescue_calls, notRescue>>

RescueInit ==
    /\ serve_api \in BOOLEAN
    /\ rpc = "idle"
    /\ rescue_args = NoRescueArgs
    /\ etc = EmptyEtc
    /\ written = <<>>
    /\ rescue_result = "none"
    /\ rescue_calls = 0

RescueNext ==
    FinalizeRescue \/ write_rescue_password \/ write_configdrive \/ StopServing

RescueSpecInit ==
    RescueInit /\ CoreIdle /\ AuxIdle /\ EraseIdle /\ MgrIdle /\ VerifyIdle /\ MetricsIdle

RescueSpec == RescueSpecInit /\ [][RescueNext]_vars

(***************************************************************************)
(* Metrics: MetricLogger.counter and the scoped timing helper.             *)
(* A sample rate and a random number are counted in ten-thousandths.       *)
(***************************************************************************)
MaxMetricCalls == 3
MaxClock == 2

\* 1.0 in ten-thousandths
RateUnit == 10000

\* None, -0.0001, 0.0, 0.5, 1.0, 1.0001
SampleRates ==
    {Entry(FALSE, 0)} \cup {Entry(TRUE, v) : v \in {-1, 0, 5000, 10000, 10001}}

\* what random.random() can return: numbers of [0.0, 1.0)
Randoms == {0, 4999, 5000, 9999}

RECURSIVE join(_, _)
join(delimiter, strs) ==
    IF strs = <<>> THEN ""
    ELSE IF Len(strs) = 1 THEN strs[1]
    ELSE strs[1] \o delimiter \o join(delimiter, Tail(strs))

\* the prefix the logger was made with
_prefix_parts == <<"ipa">>

_getMetricName(m_parts) == join(".", _prefix_parts \o m_parts)

Metric(type, name, value, sample_rate) ==
    [type |-> type, name |-> name, value |-> value, sample_rate |-> sample_rate]

\* a test that lets rates above 1.0 pass
out_of_range_below(sample_rate) ==
    sample_rate.present /\ sample_rate.value < 0

\* sample_rate is not None and sample_rate < 0.0 or sample_rate > 1.0, where
\* None > 1.0 is False
out_of_range(sample_rate) ==
    \/ sample_rate.present /\ sample_rate.value < 0
    \/ sample_rate.present /\ sample_rate.value > RateUnit

\* sample_rate is None or random.random() < sample_rate
sampled(sample_rate, r) == ~sample_rate.present \/ r < sample_rate.value

MetricParts == {<<"foo">>, <<"foo", "bar">>}

MetricStart(call) ==
    /\ mpc \in {"idle", "done"}
    /\ m_calls < MaxMetricCalls
    /\ m_calls' = m_calls + 1
    /\ m_call' = call

\* MetricLogger.counter
Counter ==
    /\ \E parts \in {<<"foo">>}, sample_rate \in SampleRates, r \in Randoms :
          /\ MetricStart(MetricCall("counter", parts, 1, sample_rate))
          /\ IF out_of_range(sample_rate)
             THEN m_result' = "ValueError" /\ UNCHANGED emitted
             ELSE /\ m_result' = "return"
                  /\ emitted' =
                        IF sampled(sample_rate, r)
                        THEN Append(emitted,
                                    Metric("counter",
                                           _getMetricName(parts) \o ".counter",
                                           1, sample_rate))
                        ELSE emitted
    /\ mpc' = "done"
    /\ UNCHANGED <<start_time, now, body_outcome, notMetrics>>

\* instrument_context(prefix, *parts) and __enter__
ContextEnter ==
    /\ \E parts \in MetricParts :
          MetricStart(MetricCall("instrument_context", <<join(".", parts)>>, 0,
                                 Entry(FALSE, 0)))
    /\ start_time' = now
    /\ m_result' = "none"
    /\ body_outcome' = "none"
    /\ mpc' = "body"
    /\ UNCHANGED <<emitted, now, notMetrics>>

\* the body of the with statement runs, and returns or raises
ContextBody ==
    /\ mpc = "body"
    /\ now' \in now..MaxClock
    /\ body_outcome' \in {"return", "raise"}
    /\ mpc' = "exit"
    /\ UNCHANGED <<emitted, m_call, m_result, m_calls, start_time, notMetrics>>

\* an __exit__ that tells the with statement to drop the error
exit_returns_true == "True"

\* __exit__ ends without a return statement
exit_returns == None

\* __exit__, and what the with statement does with the body's error
ContextExit ==
    /\ mpc = "exit"
    /\ LET duration == (now - start_time) * 1000
       IN  emitted' = Append(emitted,
                             Metric("timer", _getMetricName(m_call.parts),
                                    duration, Entry(FALSE, 0)))
    /\ m_result' = IF body_outcome = "raise" /\ ~Truthy(exit_returns)
                   THEN "BodyError" ELSE "return"
    /\ mpc' = "done"
    /\ UNCHANGED <<m_call, m_calls, start_time, now, body_outcome, notMetrics>>

MetricsInit ==
    /\ emitted = <<>>
    /\ mpc = "idle"
    /\ m_call = NoMetricCall
    /\ m_result = "none"
    /\ m_calls = 0
    /\ start_time = 0
    /\ now = 0
    /\ body_outcome = "none"

MetricsNext == Counter \/ ContextEnter \/ ContextBody \/ ContextExit

MetricsSpecInit ==
    MetricsInit /\ CoreIdle /\ AuxIdle /\ EraseIdle /\ MgrIdle /\ VerifyIdle /\ RescueIdle

MetricsSpec == MetricsSpecInit /\ [][MetricsNext]_vars

(***************************************************************************)
(* Concurrent cache_image and prepare_image commands: each async command   *)
(* runs _write_image on a worker of its own.                               *)
(***************************************************************************)
MaxJobs == 2

\* the commands that reach _write_image, with the force they pass
WriteRequests ==
    {[name |-> "cache_image", id |-> i, force |-> f] :
        i \in {"i1", "i2"}, f \in BOOLEAN}
        \cup {[name |-> "prepare_image", id |-> i, force |-> FALSE] :
                  i \in {"i1", "i2"}}

\* _write_image from its call to the entry of img_mgr.write_os_image, or to
\* its end when the image counts as written already
WriteImageStart(w) ==
    /\ jobs[w].pc = "idle"
    /\ jobs[w].n < MaxJobs
    /\ \E r \in WriteRequests :
          jobs' = [jobs EXCEPT ![w] =
                      [pc |-> IF must_write(cached_image_id, r.id, r.force)
                              THEN "write_os_image" ELSE "idle",
                       name |-> r.name, id |-> r.id, force |-> r.force,
                       n |-> jobs[w].n + 1]]
    /\ UNCHANGED <<standbyVars, notRace>>

\* img_mgr.write_os_image returns or raises; the rest of _write_image
WriteImageEnd(w) ==
    /\ jobs[w].pc = "write_os_image"
    /\ \E ok \in BOOLEAN :
          cached_image_id' = IF ok THEN jobs[w].id ELSE cached_image_id
    /\ jobs' = [jobs EXCEPT ![w].pc = "idle"]
    /\ UNCHANGED <<hw_mgr, cached0, cmd, web, spc, events, command_status,
                   command_error, device, img_mgr, tmp, cd_size, last_write,
                   notRace>>

RaceInit == RaceIdle /\ VhdIdle /\ StatsdIdle

RaceNext == \E w \in Workers : WriteImageStart(w) \/ WriteImageEnd(w)

RaceSpecInit ==
    RaceInit /\ CoreIdle /\ EraseIdle /\ MgrIdle /\ VerifyIdle /\ RescueIdle
        /\ MetricsIdle

RaceSpec == RaceSpecInit /\ [][RaceNext]_vars

(***************************************************************************)
(* The statsd sockets: StatsdMetricLogger._send on concurrent workers.     *)
(***************************************************************************)
MaxSends == 2

\* a socket of _open_socket: the worker and the _send call that created it,
\* whether it is open, the datagrams sent through it
Socket(w, n) == [worker |-> w, call |-> n, open |-> TRUE, sent |-> 0]

\* a closing that leaves the socket open when the body raised
closing_exit_on_success(raised) == raised

\* contextlib.closing.__exit__: thing.close() whatever the body did; the
\* value is whether the socket stays open
closing_exit(raised) == FALSE

\* _send up to the entry of the with statement: self._open_socket()
OpenSocket(w) ==
    /\ senders[w].pc = "idle"
    /\ senders[w].n < MaxSends
    /\ \E created \in BOOLEAN :
          IF created
          THEN /\ sockets' = Append(sockets, Socket(w, senders[w].n + 1))
               /\ senders' = [senders EXCEPT ![w] =
                      [pc |-> "with", sock |-> Len(sockets) + 1,
                       n |-> senders[w].n + 1, result |-> "none"]]
          ELSE \* socket.socket raises: there is no socket to close
               /\ senders' = [senders EXCEPT ![w] =
                      [pc |-> "idle", sock |-> 0, n |-> senders[w].n + 1,
                       result |-> "socket.error"]]
               /\ UNCHANGED sockets
    /\ UNCHANGED notStatsd

\* the body of the with statement: sock.sendto(metric, self._target)
SendTo(w) ==
    /\ senders[w].pc = "with"
    /\ \E ok \in BOOLEAN :
          IF ok
          THEN /\ sockets' = [sockets EXCEPT ![senders[w].sock].sent = @ + 1]
               /\ senders' = [senders EXCEPT ![w].pc = "exit",
                                              ![w].result = "sent"]
          ELSE /\ senders' = [senders EXCEPT ![w].pc = "exit",
                                              ![w].result = "socket.error"]
               /\ UNCHANGED sockets
    /\ UNCHANGED notStatsd

\* the end of the with statement, then the return or the error of _send
CloseSocket(w) ==
    /\ senders[w].pc = "exit"
    /\ sockets' = [sockets EXCEPT ![senders[w].sock].open =
                      closing_exit(senders[w].result = "socket.error")]
    /\ senders' = [senders EXCEPT ![w].pc = "idle", ![w].sock = 0]
    /\ UNCHANGED notStatsd

StatsdInit == StatsdIdle /\ RaceIdle /\ VhdIdle

StatsdNext ==
    \E w \in Workers : OpenSocket(w) \/ SendTo(w) \/ CloseSocket(w)

StatsdSpecInit ==
    StatsdInit /\ CoreIdle /\ EraseIdle /\ MgrIdle /\ VerifyIdle /\ RescueIdle
        /\ MetricsIdle

StatsdSpec == StatsdSpecInit /\ [][StatsdNext]_vars

(***************************************************************************)
(* The VHD writer: VHDUtilImageManager.write_os_image, called with a       *)
(* valid image_info and a device.                                          *)
(***************************************************************************)
MaxVhds == 3

\* '%s.vhd' % i
VhdName(i) == ToString(i) \o ".vhd"

\* what a tar file can unpack to: image.vhd or not, and 0.vhd .. (n-1).vhd
Packages == [image : BOOLEAN, n : 0..MaxVhds]

\* _get_vhds before its raise: image.vhd alone, else the numbered files
_get_vhds(p) ==
    IF p.image THEN <<"image.vhd">> ELSE [i \in 1..p.n |-> VhdName(i - 1)]

\* the list taken front to back
reversed_forward(s) == s

\* reversed(vhds)
reversed(s) == [k \in 1..Len(s) |-> s[Len(s) + 1 - k]]

\* a command of the writer and its exit code
VhdCommand(op, path, parent, exit_code) ==
    [op |-> op, path |-> path, parent |-> parent, exit_code |-> exit_code]

\* shutil.rmtree(path, ignore_errors=True): whether the path still exists; a
\* directory goes with all it holds, a regular file is no tree and stays
rmtree(exists, is_dir) == exists /\ ~is_dir

\* the finally clauses on the way out, innermost first: os.chdir(old_path)
\* of _temporary_chdir, _safe_remove_path(tar_dir) of _untar_image,
\* _safe_remove_path(location) of _download_image; then the result
VhdLeave(error, fs, scopes) ==
    /\ released' = scopes
    /\ vhd_fs' =
          [file |-> rmtree(fs.file, FALSE),
           tardir |-> IF \E k \in 1..Len(scopes) : scopes[k] = "tar_dir"
                      THEN rmtree(fs.tardir, TRUE) ELSE fs.tardir,
           cwd |-> IF \E k \in 1..Len(scopes) : scopes[k] = "chdir"
                   THEN "old_path" ELSE fs.cwd]
    /\ vhd_result' = error
    /\ vhd_pc' = "done"

\* _download_image up to its yield
VhdDownload ==
    /\ vhd_pc = "call"
    /\ \E outcome \in {"", "IOError", "ImageDownloadError",
                        "ImageChecksumError"} :
          IF outcome = ""
          THEN /\ vhd_fs' = [vhd_fs EXCEPT !.file = TRUE]
               /\ vhd_pc' = "untar"
               /\ UNCHANGED <<vhd_result, released>>
          ELSE \* open(location, 'w') raised, or _fetch_image on the open file
               VhdLeave(outcome, [vhd_fs EXCEPT !.file = outcome # "IOError"],
                        <<"location">>)
    /\ UNCHANGED <<package, vhds, parent_path, link_k, vhd_cmds, notVhd>>

\* _untar_image up to its yield
VhdUntar ==
    /\ vhd_pc = "untar"
    /\ IF rmtree(vhd_fs.tardir, TRUE)
       THEN \* os.mkdir(tar_dir) of a path that exists, outside the try
            /\ VhdLeave("OSError", vhd_fs, <<"location">>)
            /\ UNCHANGED vhd_cmds
       ELSE \E exit_code \in {0, 1} :
          /\ vhd_cmds' = Append(vhd_cmds,
                             VhdCommand("tar", "location", None, exit_code))
          /\ IF exit_code = 0
             THEN /\ vhd_fs' = [vhd_fs EXCEPT !.tardir = TRUE]
                  /\ vhd_pc' = "chdir"
                  /\ UNCHANGED <<vhd_result, released>>
             ELSE VhdLeave("ImageFormatError", [vhd_fs EXCEPT !.tardir = TRUE],
                           <<"tar_dir", "location">>)
    /\ UNCHANGED <<package, vhds, parent_path, link_k, notVhd>>

\* _temporary_chdir up to its yield, _get_vhds and the test of its list
VhdGetVhds ==
    /\ vhd_pc = "chdir"
    /\ vhds' = _get_vhds(package)
    /\ IF vhds' = <<>>
       THEN VhdLeave("ImageFormatError", [vhd_fs EXCEPT !.cwd = "tar_dir"],
                     <<"chdir", "tar_dir", "location">>)
       ELSE /\ vhd_fs' = [vhd_fs EXCEPT !.cwd = "tar_dir"]
            /\ vhd_pc' = "link"
            /\ UNCHANGED <<vhd_result, released>>
    /\ UNCHANGED <<package, parent_path, link_k, vhd_cmds, notVhd>>

\* one round of the loop of _link_vhds, or its end
VhdLink ==
    /\ vhd_pc = "link"
    /\ IF link_k = Len(vhds)
       THEN /\ vhd_pc' = "vhd2raw"
            /\ UNCHANGED <<parent_path, link_k, vhd_cmds, vhd_fs, vhd_result,
                           released>>
       ELSE LET vhd_path == reversed(vhds)[link_k + 1] IN
            /\ link_k' = link_k + 1
            /\ parent_path' = vhd_path
            /\ IF parent_path = None
               THEN UNCHANGED <<vhd_cmds, vhd_pc, vhd_fs, vhd_result, released>>
               ELSE \E exit_code \in {0, 1} :
                       /\ vhd_cmds' = Append(vhd_cmds,
                              VhdCommand("modify", vhd_path, parent_path,
                                         exit_code))
                       /\ IF exit_code = 0
                          THEN UNCHANGED <<vhd_pc, vhd_fs, vhd_result, released>>
                          ELSE VhdLeave("ImageFormatError", vhd_fs,
                                        <<"chdir", "tar_dir", "location">>)
    /\ UNCHANGED <<package, vhds, notVhd>>

\* the rest of _write_vhds: vhd2raw of vhds[0] to the device
Vhd2raw ==
    /\ vhd_pc = "vhd2raw"
    /\ \E exit_code \in {0, 1} :
          /\ vhd_cmds' = Append(vhd_cmds,
                             VhdCommand("vhd2raw", vhds[1], None, exit_code))
          /\ VhdLeave(IF exit_code = 0 THEN "" ELSE "ImageWriteError", vhd_fs,
                      <<"chdir", "tar_dir", "location">>)
    /\ UNCHANGED <<package, vhds, parent_path, link_k, notVhd>>

VhdInit ==
    /\ vhd_pc = "call"
    /\ vhd_fs \in {[EmptyVhdFs EXCEPT !.tardir = leftover] :
                       leftover \in BOOLEAN}
    /\ package \in Packages
    /\ vhds = <<>>
    /\ parent_path = None
    /\ link_k = 0
    /\ vhd_cmds = <<>>
    /\ vhd_result = "none"
    /\ released = <<>>

VhdNext == VhdDownload \/ VhdUntar \/ VhdGetVhds \/ VhdLink \/ Vhd2raw

VhdSpecInit ==
    VhdInit /\ RaceIdle /\ StatsdIdle /\ CoreIdle /\ EraseIdle /\ MgrIdle
        /\ VerifyIdle /\ RescueIdle /\ MetricsIdle

VhdSpec == VhdSpecInit /\ [][VhdNext]_vars

\* C1: a walk from the lowest-priority state, the version unchanged and every
\* step function succeeding, runs every prioritized step exactly once in
\* ascending priority order and ends with DONE after as many calls as there
\* are prioritized steps.  Every call runs the next step of the sorted list
\* (ran grows along SortedStates, one step per call), the walk never fails,
\* a step of the walk stays enabled until DONE has been received, and then every
\* prioritized step has run in as many calls.
C1_DecommissionWalk ==
    /\ IsPrefix(ran, SortedStates)
    /\ Len(ran) = calls
    /\ ctl # "failed"
    /\ ctl # "done" => WalkCanStep
    /\ ctl = "done" => ran = SortedStates /\ calls = Len(SortedStates)

C1_Witness ==
    /\ ctl = "done"
    /\ calls = 2
    /\ Len(steps) = 3
    /\ ran = <<steps[3].state, steps[1].state>>

(***************************************************************************)
(* Single decommission calls (Spec).                                       *)
(***************************************************************************)
Called == ctl = "replied"

Explicit == Truthy(kwargs.decommission_target_state)

NodeVersion == node.driver_info.hardware_manager_version

\* the node carries a version and it is not the manager's
NodeVersionDiffers ==
    NodeVersion # None /\ NodeVersion # "" /\ NodeVersion # HARDWARE_MANAGER_VERSION

\* the call names a target: explicitly, or through the driver_info key
HasTargetSource == Explicit \/ node.driver_info.has_target

IndexOfState(st) == CHOOSE i \in 1..Len(steps) : steps[i].state = st

StrictlyIncreasing ==
    /\ \A i \in 1..Len(steps) : ~steps[i].priority.none
    /\ \A i, j \in 1..Len(steps) :
          i < j => steps[i].priority.val < steps[j].priority.val

\* C2: with strictly increasing priorities, the decommission_next_state
\* returned after running the step with state S is the state of the step with
\* the next higher priority, and DONE when S has the highest priority.
C2_NextState ==
    (Called /\ StrictlyIncreasing /\ oracle.outcome = "ok" /\ result.invoked # <<>>)
        => /\ result.kind = "return"
           /\ LET i == IndexOfState(result.invoked[1])
              IN  result.decommission_next_state =
                      IF i = Len(steps) THEN "DONE" ELSE steps[i + 1].state

C2_Witness ==
    /\ Called /\ StrictlyIncreasing /\ Len(steps) = 3
    /\ result.invoked = <<steps[2].state>>
    /\ result.decommission_next_state = steps[3].state

\* C3 as claimed: a set and differing node version always makes decommission
\* raise WrongDecommissionVersion before any step function is invoked; an
\* unset or equal version never fails the guard.
C3_Original ==
    Called =>
        /\ NodeVersionDiffers =>
              result.kind = "WrongDecommissionVersion" /\ result.invoked = <<>>
        /\ ~NodeVersionDiffers => result.kind # "WrongDecommissionVersion"

\* C3 amended: a set and differing node version makes decommission raise
\* WrongDecommissionVersion before any step function is invoked whenever the
\* call names a target (explicitly or by the driver_info key); without one the
\* call fails with the missing-target Decommission error first, also without
\* invoking a step function; an unset or equal version never fails the guard.
C3_VersionGuard ==
    Called =>
        /\ (NodeVersionDiffers /\ HasTargetSource) =>
              result.kind = "WrongDecommissionVersion" /\ result.invoked = <<>>
        /\ (NodeVersionDiffers /\ ~HasTargetSource) =>
              /\ result.kind = "DecommissionError"
              /\ result.reason = "missing_target"
              /\ result.invoked = <<>>
        /\ ~NodeVersionDiffers => result.kind # "WrongDecommissionVersion"

C3_Witness ==
    /\ Called /\ NodeVersionDiffers /\ Explicit
    /\ kwargs.decommission_target_state \in KnownStates
    /\ oracle.outcome = "ok"
    /\ result.kind = "WrongDecommissionVersion"

\* C4 as claimed: every decommission call whose step function completes
\* without raising returns a result with the keys decommission_next_state,
\* reboot_requested, step_return_value and hardware_manager_version, also for
\* a step selected by an explicit target.
C4_Original ==
    (Called /\ oracle.outcome = "ok" /\ result.invoked # <<>>)
        => result.kind = "return" /\ result.keys = ResultKeys

\* the state a driver_info target names is a step without priority
TargetsUnprioritized(t) ==
    \E i \in 1..Len(steps) : steps[i].state = t /\ steps[i].priority.none

\* explicit targets are looked up in the unsorted, unfiltered list, and a
\* step without priority is invoked only as the explicit target
C5_ExplicitLookup ==
    /\ (Explicit /\ result.kind # "WrongDecommissionVersion") =>
          IF kwargs.decommission_target_state \in KnownStates
          THEN result.selected = kwargs.decommission_target_state
          ELSE result.kind = "DecommissionError" /\ result.reason = "unknown_state"
    /\ \A i \in 1..Len(steps) :
          (steps[i].priority.none /\ result.invoked = <<steps[i].state>>)
              => (Explicit /\ kwargs.decommission_target_state = steps[i].state)

\* C5 as claimed: an explicit target is looked up without sorting or
\* filtering; a step without priority is run only as the explicit target, and
\* a call whose driver_info target names it fails with the unknown-state
\* Decommission error.
C5_Original ==
    Called =>
        /\ C5_ExplicitLookup
        /\ (~Explicit /\ node.driver_info.has_target
              /\ TargetsUnprioritized(node.driver_info.decommission_target_state)) =>
              /\ result.invoked = <<>>
              /\ result.kind = "DecommissionError"
              /\ result.reason = "unknown_state"

\* C5 amended: as claimed, except that the call whose driver_info target
\* names a step without priority fails with WrongDecommissionVersion when the
\* node's version is set and differs, and with the unknown-state Decommission
\* error otherwise; in both cases no step function is invoked.
C5_UnprioritizedOnlyExplicit ==
    Called =>
        /\ C5_ExplicitLookup
        /\ (~Explicit /\ node.driver_info.has_target
              /\ TargetsUnprioritized(node.driver_info.decommission_target_state)) =>
              /\ result.invoked = <<>>
              /\ IF NodeVersionDiffers
                 THEN result.kind = "WrongDecommissionVersion"
                 ELSE result.kind = "DecommissionError"
                      /\ result.reason = "unknown_state"

C5_Witness ==
    /\ Called /\ Explicit /\ Len(steps) = 3
    /\ steps[3].priority.none /\ ~steps[1].priority.none
    /\ kwargs.decommission_target_state = steps[3].state
    /\ result.invoked = <<steps[3].state>>

\* C6 as claimed: every failure of a decommission call is a Decommission or
\* a WrongDecommissionVersion error (missing target, unknown state, unknown
\* function, step raised), and no other error kind escapes.
C6_Original ==
    Called =>
        /\ result.kind \in {"return", "DecommissionError", "WrongDecommissionVersion"}
        /\ (oracle.outcome = "raise" /\ result.invoked # <<>>) =>
              result.kind = "DecommissionError" /\ result.reason = "step_failed"
        /\ (~Explicit /\ ~node.driver_info.has_target) =>
              result.kind = "DecommissionError" /\ result.reason = "missing_target"
        /\ (Explicit /\ ~NodeVersionDiffers
              /\ kwargs.decommission_target_state \notin KnownStates) =>
              result.kind = "DecommissionError" /\ result.reason = "unknown_state"
        /\ (oracle.outcome = "absent" /\ result.selected # None) =>
              result.kind = "DecommissionError" /\ result.reason = "unknown_function"

\* the call leaves the target to a driver_info key holding an empty value
InitialCall ==
    /\ ~Explicit
    /\ node.driver_info.has_target
    /\ node.driver_info.decommission_target_state \in {None, ""}

\* the call dispatches to the first step of the priority-sorted list
RunsFirstSorted ==
    /\ result.selected = SortedStates[1]
    /\ result.invoked = IF oracle.outcome = "absent" THEN <<>>
                         ELSE <<SortedStates[1]>>

MissingTargetFails ==
    (~Explicit /\ ~node.driver_info.has_target) =>
        /\ result.kind = "DecommissionError"
        /\ result.reason = "missing_target"
        /\ result.invoked = <<>>

Answers200(i) == net[i].kind = "http" /\ net[i].status = 200

\* the first URL of the list that answers 200, 0 when none does
First200 ==
    IF \E i \in 1..Len(net) : Answers200(i)
    THEN CHOOSE i \in 1..Len(net) :
            Answers200(i) /\ \A j \in 1..(i - 1) : ~Answers200(j)
    ELSE 0

\* the first 200 response streams its whole body into a callback that takes
\* it, and the body's MD5 is the checksum of image_info
GoodImage ==
    /\ First200 # 0
    /\ net[First200].io_fail = -1
    /\ cb_fail \notin 0..(Len(net[First200].body) - 1)
    /\ hexdigest(md5_of(md5_new, net[First200].body)) = image_info.checksum

\* C8 as claimed: for a non-empty URL list, if a URL answers 200 and the MD5
\* of its streamed body equals image_info.checksum, _fetch_image raises no
\* error, requests the URLs in list order and none after the first 200
\* response, and the callback receives exactly that response's chunks, in
\* order, each once.
C8_Original ==
    GoodImage =>
        /\ IsPrefix(requested, image_info.urls)
        /\ Len(requested) <= First200
        /\ IsPrefix(read_cb, net[First200].body)
        /\ fpc = "done" =>
              /\ fetched.kind = "ok"
              /\ requested = SubSeq(image_info.urls, 1, First200)
              /\ read_cb = net[First200].body

AllNon200 ==
    /\ image_info.urls # <<>>
    /\ \A i \in 1..Len(net) : net[i].kind = "http" /\ net[i].status # 200

\* C9: when every URL returns a non-200 status, _fetch_image requests each
\* URL exactly once in list order, raises ImageDownload with the reason of
\* the last URL's failure, and never invokes the chunk callback.
C9_Exhaustion ==
    AllNon200 =>
        /\ IsPrefix(requested, image_info.urls)
        /\ read_cb = <<>>
        /\ fpc = "done" =>
              /\ requested = image_info.urls
              /\ fetched = [kind |-> "ImageDownloadError",
                            reason |-> StatusReason(net[Len(net)].status)]

C9_Witness ==
    /\ AllNon200 /\ fpc = "done"
    /\ Len(image_info.urls) = 3
    /\ net[1].status = 500 /\ net[3].status = 404
    /\ fetched.reason = "Got HTTP status code of 404"

\* C10 as claimed: a GET failing with a transport error is recorded and the
\* fetcher continues with the next URL, as for a non-200 status; the fetch
\* fails only after every URL has been tried.
C10_Original ==
    /\ \A i \in 1..Len(requested) :
          (net[i].kind = "transport" /\ i < Len(image_info.urls) /\ fpc = "done")
              => Len(requested) > i
    /\ (fpc = "done" /\ resp = 0 /\ image_info.urls # <<>>) =>
          /\ requested = image_info.urls
          /\ fetched.kind = "ImageDownloadError"

\* a hex digit in lower case
lower(c) ==
    CASE c = "A" -> "a" [] c = "B" -> "b" [] c = "C" -> "c"
      [] c = "D" -> "d" [] c = "E" -> "e" [] c = "F" -> "f" [] OTHER -> c

\* the whole body of the selected response was read and handed on
StreamedAll ==
    /\ fpc = "done" /\ resp # 0
    /\ fetched.kind \in {"ok", "ImageChecksumError"}

\* C12 as claimed: the checksum comparison after EOF is case-insensitive; a
\* checksum equal to the computed hex MD5 up to letter case is accepted and
\* ImageChecksum is raised only when the two differ as hexadecimal values.
C12_Original ==
    StreamedAll =>
        (fetched.kind = "ImageChecksumError"
            <=> lower(image_info.checksum) # lower(hexdigest(checksum)))

\* the read of the next chunk failed, or the callback raised on a chunk
StreamFailed ==
    /\ resp # 0
    /\ \/ chunk_i < Len(net[resp].body) /\ net[resp].io_fail = chunk_i
       \/ cb_fail >= 0 /\ chunk_i = cb_fail + 1

\* C13: once a 200 response is selected, a failure while streaming its body
\* or while the callback consumes a chunk raises ImageDownload, and no
\* further URL of the list is requested afterwards.
C13_StreamFailure ==
    /\ resp # 0 => requested = SubSeq(image_info.urls, 1, resp)
    /\ (fpc = "done" /\ StreamFailed) => fetched.kind = "ImageDownloadError"

C13_Witness ==
    /\ fpc = "done" /\ StreamFailed
    /\ resp = 2 /\ Len(image_info.urls) = 3
    /\ cb_fail = 1 /\ Len(read_cb) = 2
    /\ fetched.kind = "ImageDownloadError"

(***************************************************************************)
(* Claims about the standby commands.                                      *)
(***************************************************************************)
\* the running command has made the call e
Did(e) == \E i \in 1..Len(events) : events[i] = e

\* C11: no image whose streamed MD5 differs from image_info.checksum is
\* written to the install device: the location is yielded to the writer only
\* with a matching MD5, and on a mismatch ImageChecksumError ends the command
\* before the write script runs, with cached_image_id as it was.
C11_ChecksumFatal ==
    /\ spc = "in_use" =>
          /\ fetched.kind = "ok"
          /\ hexdigest(checksum) = image_info.checksum
    /\ spc \in {"download", "fetch", "in_use"} => ~Did("qemu_img_write_image.sh")
    /\ (fetched.kind = "ImageChecksumError" \/ command_error = "ImageChecksumError")
          => /\ ~Did("qemu_img_write_image.sh")
             /\ cached_image_id = cached0
             /\ spc = "done" => command_status = "FAILED"

C11_Witness ==
    /\ spc = "done" /\ command_error = "ImageChecksumError"
    /\ cmd.image_info.id = "i2" /\ cached_image_id = "i1"
    /\ Did("write_os_image")

\* the temp files of images
ImageFiles == {f \in tmp.files : f # _configdrive_location}

\* C14 as claimed: the downloaded image temp file exists while the caller
\* of the download scope uses it, and does not exist after the scope is left,
\* on every exit path: normal exit, failure of the fetch, error of the caller.
C14_Original ==
    /\ spc = "in_use" => _image_location(cmd.image_info) \in tmp.files
    /\ spc \notin {"fetch", "in_use"} => ImageFiles = {}

\* the size bound of _unpack_configdrive: unpacked data of 64 MiB or less is
\* yielded, more raises ConfigDriveTooLargeError before the copy script runs
ConfigDriveSizeBound ==
    /\ spc = "cd_in_use" => cd_size \in 0..ConfigDriveMaxSize
    /\ cd_size \in 0..ConfigDriveMaxSize =>
          command_error # "ConfigDriveTooLargeError"
    /\ cd_size > ConfigDriveMaxSize =>
          /\ spc = "done" /\ command_error = "ConfigDriveTooLargeError"
          /\ ~Did("copy_configdrive_to_disk.sh")

\* C15 as claimed: a decoded config-drive of exactly 64 MiB is handed to the
\* caller, one of 64 MiB + 1 byte or more raises ConfigDriveTooLarge before
\* the caller observes the file, and the temp file <tmpdir>/configdrive is
\* removed on every exit path (too large, decode failure, caller error,
\* success).
C15_Original ==
    /\ ConfigDriveSizeBound
    /\ spc # "cd_in_use" => _configdrive_location \notin tmp.files

\* the writer the dispatch is said to select
ClaimedWriter(disk_format, container_format) ==
    IF disk_format = "vhd" /\ container_format = "ova"
    THEN "VHDUtilImageManager"
    ELSE "QemuImgImageManager"

\* C16 as claimed: get_image_manager selects the qemu-img writer for
\* disk_format qcow2, the VHD-util writer for a VHD disk format in an OVA
\* container, and the qemu-img writer for every other or absent disk_format.
C16_Original ==
    spc = "write_image" =>
        LET info == cmd.image_info
        IN  /\ get_image_manager(info.disk_format, info.container_format)
                  = ClaimedWriter(info.disk_format, info.container_format)
            /\ img_mgr = ClaimedWriter(info.disk_format, info.container_format)

\* the running command is past the cache test of _write_image
PastCacheTest == Did("get_image_manager") /\ spc # "write_image"

\* C17: a successful write of image X leaves cached_image_id = X; a command
\* for the cached id without force performs no write and leaves
\* cached_image_id as it is, with force it writes again; a command for an id
\* other than cached_image_id writes, and cached_image_id changes only to the
\* id of an image whose write succeeded.
C17_ImageCache ==
    LET id == cmd.image_info.id
    IN  /\ (spc = "written" /\ Did("qemu_img_write_image.sh"))
              => cached_image_id = id
        /\ (id = cached0 /\ ~cmd.force)
              => (~Did("write_os_image") /\ cached_image_id = cached0)
        /\ (PastCacheTest /\ (id # cached0 \/ cmd.force))
              => Did("write_os_image")
        /\ cached_image_id # cached0
              => (cached_image_id = id /\ Did("qemu_img_write_image.sh"))

C17_Witness ==
    /\ spc = "written" /\ cmd.name = "cache_image" /\ cmd.force
    /\ cached0 = "i1" /\ cmd.image_info.id = "i1"
    /\ Did("qemu_img_write_image.sh") /\ cached_image_id = "i1"

\* the image write step of the running command is over and did not fail:
\* the write was skipped, or it was made and succeeded
ImageStepDone ==
    /\ PastCacheTest
    /\ spc \notin {"download", "fetch", "in_use", "written"}
    /\ Did("write_os_image") => cached_image_id = cmd.image_info.id

\* C18: prepare_image calls write_configdrive if and only if a configdrive
\* is supplied and the image write step (performed or skipped by the cache)
\* has completed without failing; nothing of the image write comes after it;
\* prepare_image never rewrites the cached image.
C18_ConfigDrive ==
    cmd.name = "prepare_image" =>
        /\ Did("write_configdrive") <=> (cmd.configdrive # None /\ ImageStepDone)
        /\ \A i \in 1..Len(events) :
              events[i] = "write_configdrive" =>
                  \A j \in (i + 1)..Len(events) :
                      events[j] = "copy_configdrive_to_disk.sh"
        /\ Did("copy_configdrive_to_disk.sh") => Did("write_configdrive")
        /\ cmd.image_info.id = cached0 => ~Did("write_os_image")

C18_Witness ==
    /\ cmd.name = "prepare_image" /\ cmd.configdrive # None
    /\ spc = "done" /\ command_status = "SUCCEEDED"
    /\ events = <<"get_manager", "get_os_install_device", "get_image_manager",
                  "write_os_image", "open", "qemu_img_write_image.sh",
                  "write_configdrive", "copy_configdrive_to_disk.sh">>

\* an image_info that violates the ImageInfo invariants: id missing or
\* empty, urls missing, not a list or empty, checksum missing, empty or not a
\* string
ViolatesImageInfo(info) ==
    \/ info.id \in {Absent, ""}
    \/ info.urls \in {Absent, "str", "empty_list"}
    \/ info.checksum \in {Absent, "", "not_string"}

\* C19 as claimed: cache_image and prepare_image reject with
\* InvalidCommandParams every image_info that violates the ImageInfo
\* invariants, before any hardware-manager access, download or device write
\* and without changing cached_image_id.
C19_Original ==
    (cmd.name # "none" /\ ViolatesImageInfo(cmd.image_info)) =>
        /\ spc = "done"
        /\ command_status = "FAILED"
        /\ command_error = "InvalidCommandParamsError"
        /\ events = <<>>
        /\ cached_image_id = cached0

\* a cache_image call on the generic manager, for a valid image_info whose
\* first URL fails and whose second URL returns a body matching the checksum,
\* on a machine that has an install device
GenericCacheImage ==
    /\ hw_mgr = "GenericHardwareManager"
    /\ cmd.name = "cache_image"
    /\ cmd.image_info \in ValidImageInfos
    /\ cmd.image_info.checksum = CmdImageMD5
    /\ web = <<Http(500, <<>>, -1), Http(200, <<<<1>>, <<2>>>>, -1)>>
    /\ device # None

\* C20 as claimed: that call resolves the install device and an image
\* manager from the elected manager, downloads to <tmpdir>/<id>, invokes the
\* qemu writer, ends with command status SUCCEEDED and cached_image_id equal
\* to the image id, and the temp file removed.
C20_Original ==
    (GenericCacheImage /\ cached0 = None /\ spc = "done") =>
        /\ command_status = "SUCCEEDED"
        /\ cached_image_id = cmd.image_info.id
        /\ events = <<"get_manager", "get_os_install_device",
                      "get_image_manager", "write_os_image", "open",
                      "qemu_img_write_image.sh">>
        /\ _image_location(cmd.image_info) \notin tmp.files

(***************************************************************************)
(* Claims about the ATA secure erase.                                      *)
(***************************************************************************)
WriteOps == {"--security-set-pass", "--security-erase"}

IsWriteOp(h) == h.op \in WriteOps

Issued(op) == \E i \in 1..Len(hdparm) : hdparm[i].op = op

Exited0(op) == \E i \in 1..Len(hdparm) : hdparm[i].op = op /\ hdparm[i].exit_code = 0

\* the security lines were read
LinesRead == Len(hdparm) >= 1 /\ hdparm[1].exit_code = 0

Eligible(lines) ==
    "supported" \in lines /\ "not frozen" \in lines /\ "enabled" \notin lines

\* C21: _ata_erase starts the two hdparm write commands (security-set-pass,
\* then security-erase once set-pass has exited 0) if and only if the security
\* lines it read contain 'supported' and 'not frozen' and do not contain
\* 'enabled'; in every other case no hdparm write command is issued.
C21_EraseGuard ==
    /\ ~(LinesRead /\ Eligible(security_lines)) =>
           \A i \in 1..Len(hdparm) : ~IsWriteOp(hdparm[i])
    /\ (LinesRead /\ Eligible(security_lines)) =>
           /\ epc # "set_pass" => Issued("--security-set-pass")
           /\ (epc \in {"verify", "done"} /\ Exited0("--security-set-pass"))
                  => Issued("--security-erase")

C21_Witness ==
    /\ epc = "done"
    /\ LinesRead /\ Eligible(security_lines)
    /\ Issued("--security-set-pass") /\ Issued("--security-erase")

\* C22: on an eligible device security-set-pass and then security-erase are
\* issued, each at most once and in that order, security-erase only after
\* set-pass exited 0; the security lines are read again afterwards, success is
\* reported only after both commands ran once with exit 0 and the lines read
\* again contain 'not enabled', and lines without it end in
\* BlockDeviceEraseError.
C22_EraseProtocol ==
    LET writes == SelectSeq(hdparm, IsWriteOp)
        Reread == Len(hdparm) = 4 /\ hdparm[4].exit_code = 0
    IN  /\ Len(writes) <= 2
        /\ Len(writes) >= 1 => writes[1].op = "--security-set-pass"
        /\ Len(writes) = 2 =>
               /\ writes[2].op = "--security-erase"
               /\ writes[1].exit_code = 0
        /\ ata_result = [kind |-> "return", reason |-> "True"] =>
               /\ hdparm = << Hdparm("-I", 0),
                              Hdparm("--security-set-pass", 0),
                              Hdparm("--security-erase", 0),
                              Hdparm("-I", 0) >>
               /\ "not enabled" \in verify_lines
        /\ (epc = "done" /\ Reread) =>
               /\ hdparm[4].op = "-I"
               /\ Exited0("--security-erase")
               /\ IF "not enabled" \in verify_lines
                  THEN ata_result = [kind |-> "return", reason |-> "True"]
                  ELSE ata_result.kind = "BlockDeviceEraseError"

C22_Witness ==
    /\ epc = "done"
    /\ ata_result = [kind |-> "return", reason |-> "True"]
    /\ Len(hdparm) = 4

(***************************************************************************)
(* Claims about the election of the hardware manager.                      *)
(***************************************************************************)
\* the earliest entry point among those of maximum rank
EarliestMax(r) ==
    CHOOSE i \in 1..Len(r) :
        \A j \in 1..Len(r) : r[j] < r[i] \/ (r[j] = r[i] /\ i <= j)

Electing(w) == wpc[w] = "load" /\ wpc'[w] # "load"

\* C23: an election stores a new instance of the entry point of maximum rank,
\* the earliest discovered one among those of equal maximum rank; when the
\* maximum rank is not above NONE the call fails with RuntimeError and
\* _global_manager is left as it was.
C23_Election ==
    [][\A w \in Workers : Electing(w) =>
          LET best == EarliestMax(ranks)
          IN  IF ranks[best] > NONE
              THEN /\ _global_manager' = Manager(loads', best)
                   /\ wpc'[w] = "return"
              ELSE /\ got'[w].kind = "RuntimeError"
                   /\ wpc'[w] = "idle"
                   /\ _global_manager' = _global_manager]_vars

\* an election between two entry points of equal rank has just stored one
C23_Witness ==
    /\ Len(ranks) = 2 /\ ranks[1] = ranks[2] /\ ranks[1] > NONE
    /\ loads = 1
    /\ _global_manager = Manager(1, 1)
    /\ \E w \in Workers : wpc[w] = "return"

\* C24 (as claimed): a get_manager call that begins after a first one has
\* returned gives the instance the first one gave, and never loads the entry
\* points, whatever the ranks have become.
C24_Original ==
    \A w \in Workers :
        late[w] =>
            /\ wpc[w] # "load"
            /\ got[w].kind = "return" => got[w].mgr = first

\* C25 (as claimed): whatever the interleaving of the workers, all calls that
\* return give one and the same instance, the one that stays elected.
C25_Original ==
    /\ \A w1, w2 \in Workers :
           (got[w1].kind = "return" /\ got[w2].kind = "return")
               => got[w1].mgr = got[w2].mgr
    /\ first # NoManager => _global_manager = first

(***************************************************************************)
(* Claims about the inventory and the verification.                        *)
(***************************************************************************)
\* the listed devices of at least 4 GiB
Qualifying(d) == {i \in 1..Len(d) : d[i].size.gib >= 4}

LocalGbEqual ==
    LET d == hardware.disks.value
    IN  \E i \in Qualifying(d) :
           /\ d[i].name = get_os_install_device(d)
           /\ d[i].size.gib = dict_get(properties, "local_gb", 0)

\* C27 (as claimed): a missing cpu, memory or disks entry ends in
\* VerificationError; otherwise the verification succeeds when cpus, memory_mb
\* (memory in whole MiB) and local_gb (install device in whole GiB) are all
\* equal, and ends in VerificationFailed when one is not.
C27_Original ==
    vpc = "done" =>
        IF \E key \in {"cpu", "memory", "disks"} : Missing(hardware, key)
        THEN verify_result = VerificationError
        ELSE IF /\ hardware.cpu.value = dict_get(properties, "cpus", 0)
                /\ hardware.memory.value \div 1048576
                       = dict_get(properties, "memory_mb", 0)
                /\ LocalGbEqual
        THEN verify_result = Verified
        ELSE verify_result.kind = "VerificationFailed"

(***************************************************************************)
(* Claims about the rescue.                                                *)
(***************************************************************************)
\* C28: finalize_rescue writes the password file, then the configdrive file,
\* and only then sets serve_api to FALSE; a call in which a write fails leaves
\* serve_api as it was, and nothing sets serve_api back to TRUE.
C28_Rescue ==
    [][/\ serve_api' # serve_api =>
             /\ serve_api' = FALSE
             /\ written = <<pass_file, configdrive_file>>
             /\ etc[pass_file] \in
                    {crypt(rescue_args.rescue_password, salt) : salt \in Salts}
             /\ etc[configdrive_file] = b64decode(rescue_args.configdrive)
       /\ rescue_result' = "ok" => ~serve_api'
       /\ \A i \in 1..Len(written') :
             written'[i] = <<pass_file, configdrive_file>>[i]]_vars

\* the first call has written both files and stopped the API
C28_Witness ==
    /\ rpc = "done"
    /\ rescue_result = "ok"
    /\ ~serve_api
    /\ written = <<pass_file, configdrive_file>>
    /\ rescue_calls = 1

(***************************************************************************)
(* Claims about the metrics.                                               *)
(***************************************************************************)
CounterCalled == m_calls' = m_calls + 1 /\ m_call'.op = "counter"

IsCounterMetric(m) ==
    m.type = "counter" /\ m.name = "ipa.foo.counter" /\ m.value = 1

\* C29: counter raises ValueError and hands nothing to the backend when
\* sample_rate is below 0 or above 1; with sample_rate None or 1.0 every call
\* hands exactly one counter metric to the backend; with 0.0 no call does.
C29_CounterSampling ==
    [][CounterCalled =>
          LET rate == m_call'.sample_rate
          IN  /\ (rate.present /\ (rate.value < 0 \/ rate.value > RateUnit)) =>
                     m_result' = "ValueError" /\ emitted' = emitted
              /\ (~rate.present \/ rate.value = RateUnit) =>
                     /\ m_result' = "return"
                     /\ Len(emitted') = Len(emitted) + 1
                     /\ SubSeq(emitted', 1, Len(emitted)) = emitted
                     /\ IsCounterMetric(emitted'[Len(emitted')])
                     /\ emitted'[Len(emitted')].sample_rate = rate
              /\ (rate.present /\ rate.value = 0) =>
                     m_result' = "return" /\ emitted' = emitted]_vars

\* a counter of rate 1.0 was handed to the backend, one above 1.0 was refused
C29_Witness ==
    /\ m_call.op = "counter"
    /\ m_call.sample_rate = Entry(TRUE, 10001)
    /\ m_result = "ValueError"
    /\ Len(emitted) = 1
    /\ emitted[1].sample_rate = Entry(TRUE, RateUnit)

InContext == m_call.op = "instrument_context"

NoInstallDevice ==
    /\ vpc = "done"
    /\ ~\E key \in {"cpu", "memory", "disks"} : Missing(hardware, key)
    /\ hardware.cpu.value = dict_get(properties, "cpus", 0)
    /\ hardware.memory.value \div 1048576 = dict_get(properties, "memory_mb", 0)
    /\ Qualifying(hardware.disks.value) = {}

\* C40 (as claimed): when no listed device qualifies as install device, the
\* verification ends in VerificationFailed if local_gb > 0 and without any
\* error if local_gb is 0 or absent.
C40_Original ==
    NoInstallDevice =>
        IF dict_get(properties, "local_gb", 0) > 0
        THEN verify_result = VerificationFailed("local_gb")
        ELSE verify_result = Verified

(***************************************************************************)
(* Further claims about the decommission engine.                           *)
(***************************************************************************)
\* the checks of decommission before the step function is called
GuardsPassed ==
    /\ Truthy(kwargs.decommission_target_state) \/ node.driver_info.has_target
    /\ ~version_mismatch(node.driver_info)
    /\ result.selected # None
    /\ oracle.outcome # "absent"

\* C34: a decommission call invokes at most one step function, once, and
\* only after target resolution, version guard, step lookup and function
\* lookup have passed; a call that returns has invoked the selected step; a
\* call that fails with missing target, wrong version, unknown state or
\* unknown function has invoked none.
C34_OneStep ==
    ctl = "replied" =>
        /\ Len(ran) <= 1
        /\ ran # <<>> => GuardsPassed /\ ran = <<result.selected>>
        /\ result.kind = "return" => Len(ran) = 1
        /\ ( \/ result.kind = "WrongDecommissionVersion"
             \/ result.reason \in {"missing_target", "unknown_state",
                                    "unknown_function"} ) => ran = <<>>

\* a step was invoked and raised
C34_Witness ==
    /\ ctl = "replied"
    /\ result.reason = "step_failed"
    /\ Len(ran) = 1
    /\ GuardsPassed

(***************************************************************************)
(* Claims about erase_devices.                                             *)
(***************************************************************************)
Erased == [kind |-> "return", reason |-> ""]

\* the devices are dealt with in inventory order, each once
LoggedInOrder == \A k \in 1..Len(erase_log) : erase_log[k].dev = k

\* C35 (as claimed): the erase_hardware command and the decommission step
\* erase_devices both reach the erase: the call is not refused, and when it
\* returns erase_block_device has been invoked once for each listed device.
C35_Original ==
    (epc = "finished" /\ erase_entry \in {"erase_hardware", "decommission"}) =>
        /\ erase_result.reason # "TypeError" /\ erase_result.kind # "TypeError"
        /\ erase_result = Erased =>
               Len(erase_log) = n_block_devices /\ LoggedInOrder

\* C36 (as claimed): a device carries a password set by the driver only while
\* its erase is under way; once erase_block_device has ended, also by
\* failing, no password of the driver is left on the device.
C36_Original ==
    \A d \in 1..n_block_devices :
        dev_password[d] = "driver" => erase_i = d /\ epc \in {"erase", "verify"}

\* a failure ends the call: only the last device dealt with may have failed,
\* its error is the result, a device counts as erased only after both write
\* commands and both reads exited 0, and a call that returns has erased
\* every listed device
EraseAborts ==
    /\ LoggedInOrder
    /\ Len(erase_log) <= n_block_devices
    /\ \A k \in 1..Len(erase_log) :
          /\ k < Len(erase_log) => erase_log[k].result = Erased
          /\ erase_log[k].result = Erased =>
                 erase_log[k].hdparm = << Hdparm("-I", 0),
                                         Hdparm("--security-set-pass", 0),
                                         Hdparm("--security-erase", 0),
                                         Hdparm("-I", 0) >>
          /\ erase_log[k].result # Erased =>
                 epc = "finished" /\ erase_result = erase_log[k].result
    /\ (epc = "finished" /\ erase_result = Erased) =>
           Len(erase_log) = n_block_devices
    /\ erase_i > Len(erase_log) => epc \notin {"call", "finished"}

CommandFailed(h) == \E i \in 1..Len(h) : h[i].exit_code # 0

C38_Original ==
    cached_image_id # None => last_write = ImageWrite(cached_image_id, TRUE)

\* the workers inside img_mgr.write_os_image
Writing == {w \in Workers : jobs[w].pc = "write_os_image"}

Sending == {w \in Workers : senders[w].pc \in {"with", "exit"}}

\* C31: every emission works on a socket of its own, created for it, sends
\* at most one datagram through it (exactly one when the send succeeded) and
\* has closed it when _send is left, by return or by error; a socket is open
\* only while the emission that created it is inside _send, so no socket
\* stays open after any sequence of emissions and none serves two emissions.
C31_Sockets ==
    /\ \A i \in 1..Len(sockets) :
          /\ sockets[i].sent <= 1
          /\ sockets[i].open <=>
                 \E w \in Sending :
                    /\ senders[w].sock = i
                    /\ sockets[i].worker = w
                    /\ sockets[i].call = senders[w].n
          /\ \A j \in 1..Len(sockets) :
                 (sockets[i].worker = sockets[j].worker
                     /\ sockets[i].call = sockets[j].call) => i = j
    /\ \A w \in Workers :
          /\ senders[w].result = "sent" =>
                 \E i \in 1..Len(sockets) :
                    /\ sockets[i].worker = w
                    /\ sockets[i].call = senders[w].n
                    /\ sockets[i].sent = 1
          /\ senders[w].pc = "with" => sockets[senders[w].sock].sent = 0
    /\ Sending = {} => \A i \in 1..Len(sockets) : ~sockets[i].open

\* both workers are inside _send at once, each on an open socket of its own,
\* after an emission whose send failed and one whose send succeeded, both
\* closed
C31_Witness ==
    /\ Sending = Workers
    /\ \A w \in Workers : sockets[senders[w].sock].open
    /\ \E i, j \in 1..Len(sockets) :
          /\ sockets[i].sent = 0 /\ ~sockets[i].open
          /\ sockets[j].sent = 1 /\ ~sockets[j].open

\* the vhd-util modify commands executed so far
Modifies == SelectSeq(vhd_cmds, LAMBDA c : c.op = "modify")

\* the vhd2raw commands executed so far
Vhd2raws == SelectSeq(vhd_cmds, LAMBDA c : c.op = "vhd2raw")

\* the list has been read and it is a chain of numbered files
Chained == vhd_pc \in {"link", "vhd2raw", "done"} /\ vhds # <<>>

\* C32: linking a chain of n VHDs executes the modify commands in the order
\* child n-2, n-3, .. 0, each child i with parent i+1, n-1 of them when all
\* succeed and none for a single VHD; a modify that fails is the last
\* command executed and the write ends with ImageFormatError, so vhd2raw is
\* not invoked; vhd2raw runs at most once, after all n-1 modify commands
\* succeeded, on the leaf vhds[0].
C32_LinkChain ==
    Chained =>
        LET n == Len(vhds) IN
        /\ Len(Modifies) <= n - 1
        /\ \A k \in 1..Len(Modifies) :
              /\ Modifies[k].path = VhdName(n - 1 - k)
              /\ Modifies[k].parent = VhdName(n - k)
              /\ Modifies[k].path = vhds[n - k]
              /\ Modifies[k].exit_code # 0 =>
                     /\ k = Len(Modifies)
                     /\ Vhd2raws = <<>>
                     /\ vhd_pc = "done"
                     /\ vhd_result = "ImageFormatError"
        /\ Len(Vhd2raws) <= 1
        /\ Vhd2raws # <<>> =>
              /\ Len(Modifies) = n - 1
              /\ Vhd2raws[1].path = vhds[1]
              /\ vhd_cmds[Len(vhd_cmds)] = Vhd2raws[1]
        /\ vhd_pc = "vhd2raw" => Len(Modifies) = n - 1
        /\ (vhd_pc = "done" /\ vhd_result = "") =>
              Len(Vhd2raws) = 1 /\ Vhd2raws[1].exit_code = 0

\* a chain of MaxVhds files was linked and written
C32_Witness ==
    /\ vhd_pc = "done"
    /\ vhd_result = ""
    /\ Len(vhds) = MaxVhds
    /\ Len(Modifies) = MaxVhds - 1
    /\ Len(Vhd2raws) = 1

\* C33 (as claimed): on every way out of the VHD write the working
\* directory was restored first, the tar directory removed next and the
\* downloaded file last, and neither the directory nor the file is left.
C33_Original ==
    vhd_pc = "done" =>
        /\ vhd_fs.cwd = "old_path"
        /\ ~vhd_fs.file
        /\ \E k \in 0..2 :
              released = SubSeq(<<"chdir", "tar_dir", "location">>, k + 1, 3)
        /\ (\E k \in 1..Len(released) : released[k] = "tar_dir") =>
              ~vhd_fs.tardir
====
